---- MODULE Spec2Model ----
(***************************************************************************)
(* Teampulse_AI: transcript parsing (meetings/parsers.py), the atomic      *)
(* upload-analyze-save pass (meetings/views.py, meetings/analyzers.py),    *)
(* the models' constraints (meetings/models.py) and the participation      *)
(* balance.                                                                *)
(*                                                                         *)
(* Text is a sequence of one-character strings; a transcript is one such   *)
(* sequence with "\n" between its lines, as the upload form hands it over. *)
(***************************************************************************)
EXTENDS Integers, Sequences, FiniteSets, TLC

VARIABLES
    \* ---- parser run (TranscriptParser) ----
    transcript_text,   \* TranscriptParser.transcript_text
    lines,             \* parse(): transcript_text.strip().split('\n')
    format_type,       \* parse(): result of _detect_format
    parsed,            \* the list parse() returns
    ppc,               \* position of the parser run
    \* ---- upload passes and the database ----
    pc,                \* per request: position in upload_transcript
    req,               \* per request: transcript and parsed_data
    cur,               \* per request: index of msg_data in the loop, speaker found
    meetings,          \* Meeting rows
    speakers,          \* Speaker rows
    messages,          \* Message rows
    metrics,           \* MeetingMetrics rows
    \* ---- participation balance run ----
    participations,    \* the meeting's metric rows' participation_percentage
    balance,           \* result of _calculate_participation_balance
    bpc,               \* position of the balance run
    \* ---- engagement score, trend analyses and risk detectors ----
    engagement_args,   \* arguments of _calculate_engagement_score
    engagement,        \* result of _calculate_engagement_score
    team_meetings,     \* the meetings handed to TrendAnalyzer / RiskDetector
    trend,             \* result of a TrendAnalyzer analysis
    risk,              \* result of a RiskDetector detector
    health,            \* result of calculate_team_health_index
    insight,           \* result of generate_ai_insight_banner
    apc                \* position of the analysis run

parserVars == <<transcript_text, lines, format_type, parsed, ppc>>
dbVars == <<meetings, speakers, messages, metrics>>
passVars == <<pc, req, cur>>
balanceVars == <<participations, balance, bpc>>
analysisVars == <<engagement_args, engagement, team_meetings, trend, risk, health, insight, apc>>
vars == <<transcript_text, lines, format_type, parsed, ppc, pc, req, cur,
          meetings, speakers, messages, metrics, participations, balance, bpc,
          engagement_args, engagement, team_meetings, trend, risk, health, insight, apc>>

----------------------------------------------------------------------------
(* Characters and the str methods the code uses *)

Lowers == <<"a","b","c","d","e","f","g","h","i","j","k","l","m",
            "n","o","p","q","r","s","t","u","v","w","x","y","z">>
Uppers == <<"A","B","C","D","E","F","G","H","I","J","K","L","M",
            "N","O","P","Q","R","S","T","U","V","W","X","Y","Z">>
Letters == {Lowers[i] : i \in DOMAIN Lowers} \cup {Uppers[i] : i \in DOMAIN Uppers}
Digits == {"0","1","2","3","4","5","6","7","8","9"}
Whitespace == {" ", "\t", "\r", "\n"}          \* \s, and what str.strip() removes
WordChars == Letters \cup Digits \cup {"_"}    \* \w

Min(S) == CHOOSE x \in S : \A y \in S : x <= y
Max(S) == CHOOSE x \in S : \A y \in S : x >= y

\* str.upper() / str.lower() of one character
upper(c) == IF \E i \in DOMAIN Lowers : Lowers[i] = c
            THEN Uppers[CHOOSE i \in DOMAIN Lowers : Lowers[i] = c] ELSE c
lower(c) == IF \E i \in DOMAIN Uppers : Uppers[i] = c
            THEN Lowers[CHOOSE i \in DOMAIN Uppers : Uppers[i] = c] ELSE c

\* str.strip()
strip(s) ==
    LET ns == {i \in DOMAIN s : s[i] \notin Whitespace}
    IN  IF ns = {} THEN <<>> ELSE SubSeq(s, Min(ns), Max(ns))

\* str.split(sep) for a one-character separator: always at least one piece
RECURSIVE split(_, _)
split(s, sep) ==
    LET at == {i \in DOMAIN s : s[i] = sep}
    IN  IF at = {} THEN <<s>>
        ELSE <<SubSeq(s, 1, Min(at) - 1)>> \o split(SubSeq(s, Min(at) + 1, Len(s)), sep)

\* str.split() without arguments: the maximal runs of non-whitespace
RECURSIVE split_ws(_)
split_ws(s) ==
    LET t == strip(s)
        ws == {i \in DOMAIN t : t[i] \in Whitespace}
    IN  IF t = <<>> THEN <<>>
        ELSE IF ws = {} THEN <<t>>
        ELSE <<SubSeq(t, 1, Min(ws) - 1)>> \o split_ws(SubSeq(t, Min(ws), Len(t)))

\* ' '.join(words)
RECURSIVE join_space(_)
join_space(words) ==
    IF words = <<>> THEN <<>>
    ELSE IF Len(words) = 1 THEN words[1]
    ELSE words[1] \o <<" ">> \o join_space(Tail(words))

\* capitalize that leaves the letters' case alone
capitalize_keeps_case(w) == w

\* str.capitalize(): first character upper-cased, the rest lower-cased
capitalize(w) ==
    [i \in DOMAIN w |-> IF i = 1 THEN upper(w[i]) ELSE lower(w[i])]

\* length of the maximal run of characters of class C in s from index i
RECURSIVE RunLen(_, _, _)
RunLen(s, i, C) ==
    IF i <= Len(s) /\ s[i] \in C THEN 1 + RunLen(s, i + 1, C) ELSE 0

IsDigitAt(s, i) == i >= 1 /\ i <= Len(s) /\ s[i] \in Digits
IsCharAt(s, i, c) == i >= 1 /\ i <= Len(s) /\ s[i] = c

----------------------------------------------------------------------------
(* meetings/parsers.py: the regular expressions *)

None == "None"
SampleLimit == 10

\* \[?\d{1,2}:\d{2} matched at index i: the index of the first digit and the
\* index after the match, or end 0 when it does not match at i. The optional
\* "[" and the 1-or-2 digits leave the matcher no choice: a "[" is no digit,
\* and the ":" fixes the number of digits.
ts_minutes(s, p1, d) ==
    IF d > 0 /\ IsDigitAt(s, p1 + d + 1) /\ IsDigitAt(s, p1 + d + 2)
    THEN [first |-> p1, end |-> p1 + d + 3]
    ELSE [first |-> p1, end |-> 0]

ts_hours(s, p1) ==
    ts_minutes(s, p1,
        IF IsDigitAt(s, p1) /\ IsDigitAt(s, p1 + 1) /\ IsCharAt(s, p1 + 2, ":") THEN 2
        ELSE IF IsDigitAt(s, p1) /\ IsCharAt(s, p1 + 1, ":") THEN 1
        ELSE 0)

ts_head(s, i) == ts_hours(s, IF IsCharAt(s, i, "[") THEN i + 1 ELSE i)

\* the optional seconds (?::\d{2})? after the head h, taken when present
ts_seconds(s, h) ==
    IF h.end > 0 /\ IsCharAt(s, h.end, ":") /\ IsDigitAt(s, h.end + 1) /\ IsDigitAt(s, h.end + 2)
    THEN [first |-> h.first, end |-> h.end + 3]
    ELSE h

ts_with_seconds(s, i) == ts_seconds(s, ts_head(s, i))

\* the index after the optional "]" that closes the time h
ts_close(s, h) == IF IsCharAt(s, h.end, "]") THEN h.end + 1 ELSE h.end

\* \s+\w+: from index p5 on, w the whitespace run there
ts_word_colon(s, p5, w) ==
    /\ w >= 1
    /\ RunLen(s, p5 + w, WordChars) >= 1
    /\ IsCharAt(s, p5 + w + RunLen(s, p5 + w, WordChars), ":")

ts_after_close(s, p5) == ts_word_colon(s, p5, RunLen(s, p5, Whitespace))

ts_after_head(s, h) == h.end > 0 /\ ts_after_close(s, ts_close(s, h))

\* _detect_format: re.search(r'\[?\d{1,2}:\d{2}\]?\s+\w+:', line)
timestamp_pattern_at(s, i) == ts_after_head(s, ts_head(s, i))

timestamp_pattern(line) == \E i \in DOMAIN line : timestamp_pattern_at(line, i)

\* _detect_format: re.search(r'^\w+.*?:\s+', line)
colon_pattern(line) ==
    /\ Len(line) >= 1 /\ line[1] \in WordChars
    /\ \E j \in 2..(Len(line) - 1) : line[j] = ":" /\ line[j + 1] \in Whitespace

\* the index of the first ":" of s at or after index i, or 0
first_colon_from(s, i) ==
    LET at == {j \in DOMAIN s : j >= i /\ s[j] = ":"}
    IN  IF at = {} THEN 0 ELSE Min(at)

\* \s*(.+)$ on the text after the colon, w its leading whitespace: the group.
\* \s* is greedy but gives a character back when (.+) would be empty
tail_group(rest, w) ==
    IF w = Len(rest) THEN SubSeq(rest, Len(rest), Len(rest))
    ELSE SubSeq(rest, w + 1, Len(rest))

no_match == [matched |-> FALSE, group1 |-> <<>>, group2 |-> <<>>, group3 |-> <<>>]

\* _parse_colon_format: re.match(r'^([^:]+):\s*(.+)$', line), c the first colon
colon_groups(line, c) ==
    IF c >= 2 /\ c < Len(line)
    THEN [matched |-> TRUE, group1 |-> SubSeq(line, 1, c - 1),
          group2 |-> tail_group(SubSeq(line, c + 1, Len(line)),
                                RunLen(line, c + 1, Whitespace)),
          group3 |-> <<>>]
    ELSE no_match

colon_match(line) == colon_groups(line, first_colon_from(line, 1))

\* the rest of the timestamp line pattern, ([^:]+):\s*(.+)$, after the time h
\* and the whitespace: p5 is where \s+ starts, q where the greedy \s+ ends, c
\* the first colon from q on. When ":" follows the whitespace at once, \s+
\* gives its last character to ([^:]+), which needs one.
timestamp_groups(line, h, p5, q, c) ==
    IF q > p5 /\ c > 0 /\ (c = q => q - p5 >= 2) /\ c < Len(line)
    THEN [matched |-> TRUE, group1 |-> SubSeq(line, h.first, h.end - 1),
          group2 |-> IF c = q THEN SubSeq(line, c - 1, c - 1) ELSE SubSeq(line, q, c - 1),
          group3 |-> tail_group(SubSeq(line, c + 1, Len(line)),
                                RunLen(line, c + 1, Whitespace))]
    ELSE no_match

timestamp_after_ws(line, h, p5, q) ==
    timestamp_groups(line, h, p5, q, first_colon_from(line, q))

timestamp_after_time(line, h, p5) ==
    timestamp_after_ws(line, h, p5, p5 + RunLen(line, p5, Whitespace))

timestamp_after_head(line, h) ==
    IF h.end = 0 THEN no_match
    ELSE timestamp_after_time(line, h, ts_close(line, h))

\* _parse_timestamp_format:
\* re.match(r'\[?(\d{1,2}:\d{2}(?::\d{2})?)\]?\s+([^:]+):\s*(.+)$', line)
timestamp_match(line) == timestamp_after_head(line, ts_with_seconds(line, 1))

\* clean_speaker_name: re.sub(r'\[?\d{1,2}:\d{2}(?::\d{2})?\]?', '', speaker),
\* from index i on; e is the end of a match at i, or 0
RECURSIVE remove_timestamps(_, _)
RECURSIVE remove_timestamp_at(_, _, _)
remove_timestamp_at(s, i, e) ==
    IF e > 0 THEN remove_timestamps(s, e)
    ELSE <<s[i]>> \o remove_timestamps(s, i + 1)

ts_token_end(s, h) == IF h.end = 0 THEN 0 ELSE ts_close(s, h)

remove_timestamps(s, i) ==
    IF i > Len(s) THEN <<>>
    ELSE remove_timestamp_at(s, i, ts_token_end(s, ts_with_seconds(s, i)))

----------------------------------------------------------------------------
(* meetings/parsers.py: TranscriptParser and TranscriptValidator *)

IsNonBlank(line) == strip(line) # <<>>

\* TranscriptParser._detect_format
detect_format(ls) ==
    LET sample_lines    == SelectSeq(SubSeq(ls, 1, Min({SampleLimit, Len(ls)})), IsNonBlank)
        timestamp_count == Len(SelectSeq(sample_lines, timestamp_pattern))
        colon_count     == Len(SelectSeq(sample_lines, colon_pattern))
    IN  IF 2 * timestamp_count > Len(sample_lines) THEN "timestamp"
        ELSE IF 2 * colon_count > Len(sample_lines) THEN "colon"
        ELSE "colon"

\* messages.append({...}) after sequence += 1
append_message(acc, speaker, content, timestamp) ==
    [sequence |-> acc.sequence + 1,
     messages |-> Append(acc.messages,
         [speaker |-> speaker, content |-> content,
          timestamp |-> timestamp, sequence |-> acc.sequence + 1])]

\* accept_match with sequence += 1 ahead of the test of speaker and content
accept_match_counting_skipped(acc, m, speaker, content, timestamp) ==
    IF m.matched /\ speaker # <<>> /\ content # <<>>
    THEN append_message(acc, speaker, content, timestamp)
    ELSE [acc EXCEPT !.sequence = @ + 1]

\* if match: speaker, content = groups stripped; if speaker and content: append
accept_match(acc, m, speaker, content, timestamp) ==
    IF m.matched /\ speaker # <<>> /\ content # <<>>
    THEN append_message(acc, speaker, content, timestamp)
    ELSE acc

colon_accept(acc, m) == accept_match(acc, m, strip(m.group1), strip(m.group2), None)

timestamp_accept(acc, m) == accept_match(acc, m, strip(m.group2), strip(m.group3), m.group1)

\* the body of the loop of _parse_colon_format for one line: the messages and
\* the sequence counter after it
colon_step(acc, raw) ==
    IF strip(raw) = <<>> THEN acc ELSE colon_accept(acc, colon_match(strip(raw)))

\* the body of the loop of _parse_timestamp_format for one line
timestamp_step(acc, raw) ==
    IF strip(raw) = <<>> THEN acc ELSE timestamp_accept(acc, timestamp_match(strip(raw)))

\* TranscriptParser._parse_colon_format: the for loop from line i on
RECURSIVE parse_colon_loop(_, _, _)
parse_colon_loop(ls, i, acc) ==
    IF i > Len(ls) THEN acc.messages
    ELSE parse_colon_loop(ls, i + 1, colon_step(acc, ls[i]))

\* TranscriptParser._parse_timestamp_format: the for loop from line i on
RECURSIVE parse_timestamp_loop(_, _, _)
parse_timestamp_loop(ls, i, acc) ==
    IF i > Len(ls) THEN acc.messages
    ELSE parse_timestamp_loop(ls, i + 1, timestamp_step(acc, ls[i]))

\* TranscriptParser._parse_colon_format
parse_colon_format(ls) ==
    parse_colon_loop(ls, 1, [sequence |-> 0, messages |-> <<>>])

\* TranscriptParser._parse_timestamp_format
parse_timestamp_format(ls) ==
    parse_timestamp_loop(ls, 1, [sequence |-> 0, messages |-> <<>>])

\* parse(): lines = self.transcript_text.strip().split('\n')
split_lines(text) == split(strip(text), "\n")

\* TranscriptParser.parse
parse(text) ==
    LET ls == split_lines(text)
        ft == detect_format(ls)
    IN  IF ft = "colon" THEN parse_colon_format(ls)
        ELSE IF ft = "timestamp" THEN parse_timestamp_format(ls)
        ELSE parse_colon_format(ls)

\* TranscriptParser.clean_speaker_name
capitalize_words(ws) == [i \in DOMAIN ws |-> capitalize(ws[i])]

clean_speaker_name(speaker) ==
    join_space(capitalize_words(split_ws(remove_timestamps(strip(speaker), 1))))

MinTranscriptLen == 20
MinValidLines == 2

\* the line test with `':' in line` alone
valid_line_any_colon(raw) == \E i \in DOMAIN strip(raw) : strip(raw)[i] = ":"

\* TranscriptValidator.validate: the line test of the loop
\* (':' in line, parts = line.split(':', 1), both parts non-blank)
valid_line(raw) ==
    LET line == strip(raw)
        at   == {i \in DOMAIN line : line[i] = ":"}
        c    == Min(at)
    IN  /\ line # <<>>
        /\ at # {}
        /\ strip(SubSeq(line, 1, c - 1)) # <<>>
        /\ strip(SubSeq(line, c + 1, Len(line))) # <<>>

\* TranscriptValidator.validate
validate(text) ==
    IF strip(text) = <<>> THEN FALSE
    ELSE IF Len(strip(text)) < MinTranscriptLen THEN FALSE
    ELSE Len(SelectSeq(split(strip(text), "\n"), valid_line)) >= MinValidLines

----------------------------------------------------------------------------
(* A parser run: TranscriptParser(transcript_text).parse() *)

\* '\n'.join(ls)
RECURSIVE join_lines(_)
join_lines(ls) ==
    IF ls = <<>> THEN <<>>
    ELSE IF Len(ls) = 1 THEN ls[1]
    ELSE ls[1] \o <<"\n">> \o join_lines(Tail(ls))

RECURSIVE repeat(_, _)
repeat(x, n) == IF n = 0 THEN <<>> ELSE <<x>> \o repeat(x, n - 1)

MaxLines == 3
MaxRun == 5

\* the lines transcripts are made of
LinePool == {
    <<"a",":"," ","b">>,                                \* a: b
    <<" ","A"," ","b",":"," ","c"," ","d">>,            \*  A b: c d
    <<"a",":"," ","1",":","2","3"," ","b",":"," ","c">>,  \* a: 1:23 b: c
    <<"1",":","2","3"," ","a",":"," ","b">>,            \* 1:23 a: b
    <<"[","1","2",":","3","4",":","5","6","]"," ","B",":","c">>,  \* [12:34:56] B:c
    <<"1",":","2","3"," "," ",":"," ","b">>,            \* 1:23  : b
    <<":"," ","b">>,                                    \* : b
    <<"a",":">>,                                        \* a:
    <<"a",":",":">>,                                    \* a::
    <<"a"," ",":","b"," ">>,                            \* a :b
    <<"a","b">>,                                        \* ab
    <<" ">>,                                            \* whitespace only
    <<>> }                                              \* empty

TsLine == <<"1",":","2","3"," ","a",":"," ","b">>
ColonLine == <<"a",":"," ","b">>

UploadIdle ==
    /\ pc = <<>> /\ req = <<>> /\ cur = <<>>
    /\ meetings = {} /\ speakers = {} /\ messages = {} /\ metrics = {}

BalanceIdle == participations = <<>> /\ balance = None /\ bpc = "idle"

AnalysisIdle ==
    /\ engagement_args = None /\ engagement = None
    /\ team_meetings = <<>> /\ trend = None /\ risk = None
    /\ health = None /\ insight = None
    /\ apc = "idle"

ParserIdle ==
    /\ transcript_text = <<>> /\ lines = <<>> /\ format_type = None
    /\ parsed = <<>> /\ ppc = "idle"

ParserStart(text) ==
    /\ transcript_text = text
    /\ lines = <<>> /\ format_type = None /\ parsed = <<>> /\ ppc = "start"

\* transcripts of up to MaxLines lines of LinePool
InitParse ==
    /\ \E n \in 1..MaxLines : \E ls \in [1..n -> LinePool] :
           ParserStart(join_lines(ls))
    /\ UploadIdle /\ BalanceIdle /\ AnalysisIdle

\* transcripts of a run of timestamp lines, a run of blank lines and a run of
\* colon lines, each of up to MaxRun lines, then one more run of timestamp lines
InitDetect ==
    /\ \E a \in 0..MaxRun, b \in 0..MaxRun, c \in 0..MaxRun, d \in 0..1 :
           ParserStart(join_lines(repeat(TsLine, a) \o repeat(<<>>, b)
                                  \o repeat(ColonLine, c) \o repeat(TsLine, d)))
    /\ UploadIdle /\ BalanceIdle /\ AnalysisIdle

\* parse(): the split into lines and the format detection
Detect ==
    /\ ppc = "start"
    /\ lines' = split_lines(transcript_text)
    /\ format_type' = detect_format(lines')
    /\ ppc' = "detected"
    /\ UNCHANGED <<transcript_text, parsed>>
    /\ UNCHANGED <<passVars, dbVars, balanceVars, analysisVars>>

\* parse(): format_type == 'colon'
ParseColon ==
    /\ ppc = "detected" /\ format_type = "colon"
    /\ parsed' = parse_colon_format(lines)
    /\ ppc' = "done"
    /\ UNCHANGED <<transcript_text, lines, format_type>>
    /\ UNCHANGED <<passVars, dbVars, balanceVars, analysisVars>>

\* parse(): format_type == 'timestamp'
ParseTimestamp ==
    /\ ppc = "detected" /\ format_type = "timestamp"
    /\ parsed' = parse_timestamp_format(lines)
    /\ ppc' = "done"
    /\ UNCHANGED <<transcript_text, lines, format_type>>
    /\ UNCHANGED <<passVars, dbVars, balanceVars, analysisVars>>

NextParse == Detect \/ ParseColon \/ ParseTimestamp

SpecParse == InitParse /\ [][NextParse]_vars
SpecDetect == InitDetect /\ [][NextParse]_vars

----------------------------------------------------------------------------
(* Parser claims *)

\* the text before the first colon of a line, trimmed (empty without a colon)
name_part(line) ==
    IF first_colon_from(strip(line), 1) = 0 THEN <<>>
    ELSE strip(SubSeq(strip(line), 1, first_colon_from(strip(line), 1) - 1))

\* the text after the first colon of a line, trimmed
content_part(line) ==
    IF first_colon_from(strip(line), 1) = 0 THEN <<>>
    ELSE strip(SubSeq(strip(line), first_colon_from(strip(line), 1) + 1, Len(strip(line))))

AllIn(s, C) == \A i \in DOMAIN s : s[i] \in C

\* a well-formed `Name: content` line: a name of letters and single words,
\* the colon right after it, a space, and content
WellFormedNameContent(line) ==
    /\ name_part(line) # <<>>
    /\ AllIn(name_part(line), Letters \cup {" "})
    /\ IsCharAt(strip(line), Len(name_part(line)) + 1, ":")
    /\ IsCharAt(strip(line), Len(name_part(line)) + 2, " ")
    /\ content_part(line) # <<>>

NonBlankLines(text) == SelectSeq(split(text, "\n"), IsNonBlank)

\* C7: a transcript of well-formed `Name: content` lines (and blank lines)
\* parses, format detection included, to one utterance per non-empty line, in
\* line order, numbered 1..k.
C7_WellFormedLinesAllParsed ==
    (ppc = "done" /\ \A i \in DOMAIN NonBlankLines(transcript_text) :
                         WellFormedNameContent(NonBlankLines(transcript_text)[i]))
    => /\ Len(parsed) = Len(NonBlankLines(transcript_text))
       /\ \A i \in DOMAIN parsed :
            /\ parsed[i].sequence = i
            /\ parsed[i].speaker = name_part(NonBlankLines(transcript_text)[i])
            /\ parsed[i].content = content_part(NonBlankLines(transcript_text)[i])

\* H:MM, HH:MM, H:MM:SS or HH:MM:SS, optionally in brackets
IsTimeToken(tok) ==
    LET a     == IF IsCharAt(tok, 1, "[") THEN 1 ELSE 0
        b     == IF IsCharAt(tok, Len(tok), "]") THEN 1 ELSE 0
        parts == split(SubSeq(tok, 1 + a, Len(tok) - b), ":")
    IN  /\ Len(parts) \in {2, 3}
        /\ Len(parts[1]) \in {1, 2}
        /\ \A k \in DOMAIN parts : AllIn(parts[k], Digits) /\ (k > 1 => Len(parts[k]) = 2)

\* the ends of a leading time token that whitespace follows
TimeTokenEnds(line) ==
    {e \in 1..Len(strip(line)) :
        IsTimeToken(SubSeq(strip(line), 1, e)) /\ IsCharAt(strip(line), e + 1, " ")}

AfterTimeToken(line) ==
    SubSeq(strip(line), Min(TimeTokenEnds(line)) + 1, Len(strip(line)))

\* the speaker part and content part of a line in a mode
SpeakerPart(mode, line) ==
    IF mode = "colon" THEN name_part(line)
    ELSE IF TimeTokenEnds(line) = {} THEN <<>>
    ELSE name_part(AfterTimeToken(line))

ContentPart(mode, line) ==
    IF mode = "colon" THEN content_part(line)
    ELSE IF TimeTokenEnds(line) = {} THEN <<>>
    ELSE content_part(AfterTimeToken(line))

\* the line matches the mode's pattern with a non-empty speaker and content
Accepted(mode, line) == SpeakerPart(mode, line) # <<>> /\ ContentPart(mode, line) # <<>>

AcceptedColon(line) == Accepted("colon", line)
AcceptedTimestamp(line) == Accepted("timestamp", line)

AcceptedLines(mode, ls) ==
    IF mode = "colon" THEN SelectSeq(ls, AcceptedColon) ELSE SelectSeq(ls, AcceptedTimestamp)

\* C8: in either mode the utterances are exactly the lines with a non-empty
\* speaker part and content part that match the mode's pattern, in line
\* order, and they are numbered 1, 2, ..., k: a skipped line takes no number.
C8_SkippedLinesTakeNoNumber ==
    ppc = "done" =>
        /\ Len(parsed) = Len(AcceptedLines(format_type, lines))
        /\ \A i \in DOMAIN parsed :
            /\ parsed[i].sequence = i
            /\ parsed[i].speaker = SpeakerPart(format_type, AcceptedLines(format_type, lines)[i])
            /\ parsed[i].content = ContentPart(format_type, AcceptedLines(format_type, lines)[i])

\* a timestamp-mode parse that skipped a non-empty line between two accepted ones
C8_Witness ==
    /\ ppc = "done" /\ format_type = "timestamp" /\ Len(parsed) = 2
    /\ Len(lines) = 3
    /\ IsNonBlank(lines[2]) /\ ~Accepted("timestamp", lines[2])
    /\ TimeTokenEnds(lines[2]) # {}

\* the first SampleLimit non-empty lines
FirstNonEmptyLines(ls) ==
    SubSeq(SelectSeq(ls, IsNonBlank), 1, Min({SampleLimit, Len(SelectSeq(ls, IsNonBlank))}))

\* C9: the format is timestamp exactly when more than half of the first 10
\* non-empty lines match the timestamp pattern, and colon otherwise.
C9_DetectSamplesFirstNonEmptyLines ==
    ppc # "start" =>
        format_type = IF 2 * Len(SelectSeq(FirstNonEmptyLines(lines), timestamp_pattern))
                             > Len(FirstNonEmptyLines(lines))
                      THEN "timestamp" ELSE "colon"

----------------------------------------------------------------------------
(* meetings/analyzers.py: MessageAnalyzer and MeetingAnalyzer's arithmetic *)

\* MessageAnalyzer.analyze_message: word_count
word_count(content) == Len(split_ws(content))

\* Floats are kept as exact fractions <<numerator, denominator>>, denominator > 0
RECURSIVE Gcd(_, _)
Gcd(a, b) == IF b = 0 THEN a ELSE Gcd(b, a % b)
Abs(x) == IF x < 0 THEN -x ELSE x
Frac(n, d) ==
    LET g == Gcd(Abs(n), Abs(d))
        sgn == IF d < 0 THEN -1 ELSE 1
    IN  <<sgn * (n \div g), sgn * (d \div g)>>
FAdd(x, y) == Frac(x[1] * y[2] + y[1] * x[2], x[2] * y[2])
FSub(x, y) == Frac(x[1] * y[2] - y[1] * x[2], x[2] * y[2])
FMul(x, y) == Frac(x[1] * y[1], x[2] * y[2])
FDiv(x, y) == Frac(x[1] * y[2], x[2] * y[1])
FLess(x, y) == x[1] * y[2] < y[1] * x[2]
FLeq(x, y) == x[1] * y[2] <= y[1] * x[2]
FInt(n) == <<n, 1>>
FMin(x, y) == IF FLess(y, x) THEN y ELSE x
FMax(x, y) == IF FLess(x, y) THEN y ELSE x

\* sum(xs) of a list of fractions
RECURSIVE FSum(_)
FSum(xs) == IF xs = <<>> THEN FInt(0) ELSE FAdd(xs[1], FSum(Tail(xs)))

\* list.sort() of a list of fractions
RECURSIVE insert_sorted(_, _)
insert_sorted(xs, x) ==
    IF xs = <<>> THEN <<x>>
    ELSE IF FLeq(x, xs[1]) THEN <<x>> \o xs
    ELSE <<xs[1]>> \o insert_sorted(Tail(xs), x)

RECURSIVE sorted(_)
sorted(xs) == IF xs = <<>> THEN <<>> ELSE insert_sorted(sorted(Tail(xs)), xs[1])

\* _calculate_participation_balance: for i, p in enumerate(participations):
\*     cumsum += (n - i) * p        (i counts from 0; here j = i + 1)
RECURSIVE gini_cumsum(_, _, _)
gini_cumsum(ps, n, j) ==
    IF j > Len(ps) THEN FInt(0)
    ELSE FAdd(FMul(FInt(n - (j - 1)), ps[j]), gini_cumsum(ps, n, j + 1))

ZeroDivisionError == "ZeroDivisionError"

\* the balance without the clamp of the return statement
balance_of_sorted_unclamped(ps, n, total) ==
    IF total[1] = 0 THEN ZeroDivisionError
    ELSE FSub(FInt(1),
              FSub(FDiv(FMul(FInt(2), gini_cumsum(ps, n, 1)), FMul(FInt(n), total)),
                   Frac(n + 1, n)))

\* gini = (2 * cumsum) / (n * sum(participations)) - (n + 1) / n
\* balance = 1 - gini;  return max(0, min(1, balance))
balance_of_sorted(ps, n, total) ==
    IF total[1] = 0 THEN ZeroDivisionError
    ELSE FMax(FInt(0), FMin(FInt(1),
            FSub(FInt(1),
                 FSub(FDiv(FMul(FInt(2), gini_cumsum(ps, n, 1)), FMul(FInt(n), total)),
                      Frac(n + 1, n)))))

\* MeetingAnalyzer._calculate_participation_balance, on the metric rows'
\* participation percentages
calculate_participation_balance(ps) ==
    IF Len(ps) <= 1 THEN FInt(1)
    ELSE balance_of_sorted(sorted(ps), Len(ps), FSum(ps))

\* the sum of f over the set S, f a function
RECURSIVE SumFn(_, _)
SumFn(f, S) ==
    IF S = {} THEN 0
    ELSE LET x == CHOOSE y \in S : TRUE IN f[x] + SumFn(f, S \ {x})

\* the elements of a set as a list, in some order
RECURSIVE SetToSeq(_)
SetToSeq(S) ==
    IF S = {} THEN <<>>
    ELSE LET x == CHOOSE y \in S : TRUE IN <<x>> \o SetToSeq(S \ {x})

----------------------------------------------------------------------------
(* A run of _calculate_participation_balance on given percentages *)

MaxSpeakers == 3
PctValues == {FInt(0), FInt(10), FInt(50), FInt(90), FInt(100)}

InitBalance ==
    /\ \E n \in 0..MaxSpeakers : participations \in [1..n -> PctValues]
    /\ balance = None /\ bpc = "start"
    /\ ParserIdle /\ UploadIdle /\ AnalysisIdle

ComputeBalance ==
    /\ bpc = "start"
    /\ balance' = calculate_participation_balance(participations)
    /\ bpc' = "done"
    /\ UNCHANGED <<participations, parserVars, passVars, dbVars, analysisVars>>

NextBalance == ComputeBalance

SpecBalance == InitBalance /\ [][NextBalance]_vars

\* one speaker at 100% and the others at 0%
IsTotalDominance(ps) ==
    /\ Len(ps) >= 2
    /\ \E i \in DOMAIN ps : ps[i] = FInt(100) /\ \A j \in DOMAIN ps \ {i} : ps[j] = FInt(0)

IsEqualSplit(ps) == Len(ps) >= 2 /\ \A i, j \in DOMAIN ps : ps[i] = ps[j] /\ ps[i] # FInt(0)

\* C10: with one speaker at 100% and the other n - 1 >= 1 speakers at 0% the
\* balance is at most 1/n, and below the balance of an equal split of n.
C10_DominanceLowersBalance ==
    (bpc = "done" /\ IsTotalDominance(participations))
    => /\ balance # ZeroDivisionError
       /\ FLeq(balance, Frac(1, Len(participations)))
       /\ FLess(balance, calculate_participation_balance(
                             [i \in DOMAIN participations |-> FInt(50)]))

\* percentages of a meeting in which somebody spoke: at least one is positive
SomebodySpoke(ps) == \E i \in DOMAIN ps : FLess(FInt(0), ps[i])

----------------------------------------------------------------------------
(* meetings/models.py, meetings/views.py, MeetingAnalyzer.analyze_and_save:   *)
(* the upload passes and the database.                                        *)
(*                                                                            *)
(* Each request runs upload_transcript once. The rows a pass writes inside    *)
(* transaction.atomic() are visible to that pass alone until it commits;      *)
(* rows are tagged with the pass that wrote them (the Meeting's id is the     *)
(* pass).                                                                     *)

NumPasses == 2
Passes == 1..NumPasses

\* "al: hi you", " AL : ok?", "bo b: yes": speakers Al, Al, Bo B
TextAlBo ==
    join_lines(<<
        <<"a","l",":"," ","h","i"," ","y","o","u">>,
        <<" ","A","L"," ",":"," ","o","k","?">>,
        <<"b","o"," ","b",":"," ","y","e","s">> >>)

\* "Bo  B: hello", "bo b: hi", "al: yes": speakers Bo B, Bo B, Al
TextBoAl ==
    join_lines(<<
        <<"B","o"," "," ","B",":"," ","h","e","l","l","o">>,
        <<"b","o"," ","b",":"," ","h","i">>,
        <<"a","l",":"," ","y","e","s">> >>)

\* "hello": shorter than the validator's minimum
TextShort ==
    join_lines(<<
        <<"h","e","l","l","o">> >>)

\* "a: 1:23 b: c", "b: 2:34 a: d": passes the validator, parses to nothing
TextTimesInContent ==
    join_lines(<<
        <<"a",":"," ","1",":","2","3"," ","b",":"," ","c">>,
        <<"b",":"," ","2",":","3","4"," ","a",":"," ","d">> >>)

UploadTexts == {TextAlBo, TextBoAl, TextShort, TextTimesInContent}

InAtomic == {"get_speaker", "create_speaker", "create_message", "speaker_metrics", "aggregates"}

\* the pass of p has committed
Committed(p) == pc[p] \in {"done", "deleted", "done_again", "failed_again"}

\* the Speaker rows pass p can read: committed ones and its own
visible_speakers(p) == {s \in speakers : s.by = p \/ Committed(s.by)}

\* a name column without the unique index
speaker_name_never_taken(name, rows) == FALSE

\* models.py, Speaker.name unique=True: the unique index refuses a name that
\* any row, committed or not, already holds
speaker_name_taken(name, rows) == \E s \in rows : s.name = name

\* upload_transcript without the `if not parsed_data` return
upload_outcome_unchecked(valid, parsed_data) ==
    IF ~valid THEN "invalid" ELSE "analyze"

\* views.py upload_transcript: what the handler does with the transcript
\* with the validator's verdict and the parser's list
upload_outcome(valid, parsed_data) ==
    IF ~valid THEN "invalid"
    ELSE IF parsed_data = <<>> THEN "unparsed"
    ELSE "analyze"

\* the pass without transaction.atomic(): nothing is undone
no_rollback(p) ==
    [meetings |-> meetings, speakers |-> speakers, messages |-> messages, metrics |-> metrics]

\* the database after transaction.atomic() rolls pass p back
atomic_rollback(p) ==
    [meetings |-> {m \in meetings : m.id # p},
     speakers |-> {s \in speakers : s.by # p},
     messages |-> {m \in messages : m.meeting # p},
     metrics  |-> {m \in metrics : m.meeting # p}]

\* a delete that cascades on to the speakers of the deleted messages
delete_cascade_to_speakers(m) ==
    [meetings |-> {x \in meetings : x.id # m},
     speakers |-> {s \in speakers : ~\E x \in messages : x.meeting = m /\ x.speaker = s.id},
     messages |-> {x \in messages : x.meeting # m},
     metrics  |-> {x \in metrics : x.meeting # m}]

\* the database after Meeting m is deleted: on_delete=CASCADE of
\* Message.meeting and MeetingMetrics.meeting
delete_cascade(m) ==
    [meetings |-> {x \in meetings : x.id # m},
     speakers |-> speakers,
     messages |-> {x \in messages : x.meeting # m},
     metrics  |-> {x \in metrics : x.meeting # m}]

\* _calculate_speaker_metrics: Speaker.objects.filter(messages__meeting=meeting).distinct()
speakers_of_meeting(p) ==
    {s.id : s \in {s \in visible_speakers(p) :
                      \E m \in messages : m.meeting = p /\ m.speaker = s.id}}

\* metrics_row counting the speaker's messages of every meeting
metrics_row_all_meetings(p, sid) ==
    LET speaker_messages == {m \in messages : m.speaker = sid}
        total_messages   == Cardinality({m \in messages : m.meeting = p})
        count            == Cardinality(speaker_messages)
        words            == SumFn([m \in speaker_messages |-> m.word_count], speaker_messages)
    IN  [meeting |-> p, speaker |-> sid,
         total_messages |-> count,
         total_words |-> words,
         participation_percentage |->
             IF total_messages > 0 THEN Frac(count * 100, total_messages) ELSE FInt(0),
         avg_words_per_message |-> IF count > 0 THEN Frac(words, count) ELSE FInt(0)]

\* _calculate_speaker_metrics: the MeetingMetrics row of one speaker
metrics_row(p, sid) ==
    LET speaker_messages == {m \in messages : m.meeting = p /\ m.speaker = sid}
        total_messages   == Cardinality({m \in messages : m.meeting = p})
        count            == Cardinality(speaker_messages)
        words            == SumFn([m \in speaker_messages |-> m.word_count], speaker_messages)
    IN  [meeting |-> p, speaker |-> sid,
         total_messages |-> count,
         total_words |-> words,
         participation_percentage |->
             IF total_messages > 0 THEN Frac(count * 100, total_messages) ELSE FInt(0),
         avg_words_per_message |-> IF count > 0 THEN Frac(words, count) ELSE FInt(0)]

\* _calculate_meeting_aggregates: the Meeting row after self.meeting.save()
meeting_aggregates(p) ==
    LET msgs == {m \in messages : m.meeting = p}
        rows == SetToSeq({m \in metrics : m.meeting = p})
    IN  [id |-> p,
         participation_balance |-> calculate_participation_balance(
             [i \in DOMAIN rows |-> rows[i].participation_percentage]),
         total_messages |-> Cardinality(msgs),
         total_words |-> SumFn([m \in msgs |-> m.word_count], msgs)]

\* analyze_and_save, loop head for msg_data number i:
\* speaker_name = TranscriptParser.clean_speaker_name(msg_data['speaker'])
loop_at(parsed_data, i) ==
    [i |-> i, speaker_name |-> clean_speaker_name(parsed_data[i].speaker),
     speaker |-> None, retried |-> FALSE, raised_at |-> None]

before_loop == [i |-> 0, speaker_name |-> None, speaker |-> None,
                retried |-> FALSE, raised_at |-> None]

\* the utterance pass p is at in the loop of analyze_and_save
msg_data(p) == req[p].parsed_data[cur[p].i]

new_meeting(p) ==
    [id |-> p, participation_balance |-> None, total_messages |-> 0, total_words |-> 0]

Init ==
    /\ pc = [p \in Passes |-> "idle"]
    /\ req = [p \in Passes |-> [text |-> <<>>, parsed_data |-> <<>>]]
    /\ cur = [p \in Passes |-> before_loop]
    /\ meetings = {} /\ speakers = {} /\ messages = {} /\ metrics = {}
    /\ ParserIdle /\ BalanceIdle /\ AnalysisIdle

\* upload_transcript after validator.validate and parser.parse: the error
\* returns, or transaction.atomic() and Meeting.objects.create
HandleUpload(p, text, parsed_data, outcome) ==
    /\ req' = [req EXCEPT ![p] = [text |-> text, parsed_data |-> parsed_data]]
    /\ IF outcome = "analyze"
       THEN /\ meetings' = meetings \cup {new_meeting(p)}
            /\ IF parsed_data = <<>>
               THEN /\ pc' = [pc EXCEPT ![p] = "speaker_metrics"]
                    /\ UNCHANGED cur
               ELSE /\ pc' = [pc EXCEPT ![p] = "get_speaker"]
                    /\ cur' = [cur EXCEPT ![p] = loop_at(parsed_data, 1)]
       ELSE /\ pc' = [pc EXCEPT ![p] = outcome]
            /\ UNCHANGED <<meetings, cur>>
    /\ UNCHANGED <<speakers, messages, metrics, parserVars, balanceVars, analysisVars>>

ValidateAndParse(p, text, valid, parsed_data) ==
    HandleUpload(p, text, IF valid THEN parsed_data ELSE <<>>,
                 upload_outcome(valid, parsed_data))

\* views.py upload_transcript (POST, valid form) up to the start of the loop of
\* analyze_and_save
UploadStart(p, text) ==
    /\ pc[p] = "idle"
    /\ ValidateAndParse(p, text, validate(text), parse(text))

\* the visible Speaker row of that name, if any: Speaker.objects.get(name=...)
speaker_named(p, name) == {s \in visible_speakers(p) : s.name = name}

\* Speaker.objects.get_or_create(name=speaker_name): the get
GetSpeaker(p) ==
    /\ pc[p] = "get_speaker"
    /\ IF speaker_named(p, cur[p].speaker_name) # {}
       THEN /\ cur' = [cur EXCEPT ![p].speaker =
                          (CHOOSE s \in speaker_named(p, cur[p].speaker_name) : TRUE).id]
            /\ pc' = [pc EXCEPT ![p] = "create_message"]
       ELSE /\ pc' = [pc EXCEPT ![p] = "create_speaker"]
            /\ UNCHANGED cur
    /\ UNCHANGED <<req, dbVars, parserVars, balanceVars, analysisVars>>

\* Speaker.objects.get_or_create(name=speaker_name): the create after a get that
\* found nothing. The insert waits while another pass's uncommitted row holds
\* the name; once a committed row holds it the insert fails with
\* IntegrityError and get_or_create reads that row.
CreateSpeaker(p) ==
    /\ pc[p] = "create_speaker"
    /\ IF speaker_name_taken(cur[p].speaker_name, speakers)
       THEN /\ speaker_named(p, cur[p].speaker_name) # {}
            /\ cur' = [cur EXCEPT ![p].speaker =
                          (CHOOSE s \in speaker_named(p, cur[p].speaker_name) : TRUE).id,
                                  ![p].retried = TRUE]
            /\ UNCHANGED speakers
       ELSE /\ speakers' = speakers \cup
                  {[id |-> <<p, cur[p].i>>, name |-> cur[p].speaker_name, by |-> p]}
            /\ cur' = [cur EXCEPT ![p].speaker = <<p, cur[p].i>>]
    /\ pc' = [pc EXCEPT ![p] = "create_message"]
    /\ UNCHANGED <<req, meetings, messages, metrics, parserVars, balanceVars, analysisVars>>

\* Message.objects.create(...) and the loop's step to the next msg_data
CreateMessage(p) ==
    /\ pc[p] = "create_message"
    /\ messages' = messages \cup
         {[id |-> <<p, 1, cur[p].i>>, meeting |-> p, speaker |-> cur[p].speaker,
           content |-> msg_data(p).content, timestamp |-> msg_data(p).timestamp,
           sequence_order |-> msg_data(p).sequence,
           word_count |-> word_count(msg_data(p).content)]}
    /\ IF cur[p].i < Len(req[p].parsed_data)
       THEN /\ cur' = [cur EXCEPT ![p] = loop_at(req[p].parsed_data, cur[p].i + 1)]
            /\ pc' = [pc EXCEPT ![p] = "get_speaker"]
       ELSE /\ pc' = [pc EXCEPT ![p] = "speaker_metrics"]
            /\ UNCHANGED cur
    /\ UNCHANGED <<req, meetings, speakers, metrics, parserVars, balanceVars, analysisVars>>

\* MeetingAnalyzer._calculate_speaker_metrics
SpeakerMetrics(p) ==
    /\ pc[p] = "speaker_metrics"
    /\ metrics' = metrics \cup {metrics_row(p, sid) : sid \in speakers_of_meeting(p)}
    /\ pc' = [pc EXCEPT ![p] = "aggregates"]
    /\ UNCHANGED <<req, cur, meetings, speakers, messages, parserVars, balanceVars, analysisVars>>

\* MeetingAnalyzer._calculate_meeting_aggregates, then the atomic block ends
\* and the transaction commits
Aggregates(p) ==
    /\ pc[p] = "aggregates"
    /\ IF meeting_aggregates(p).participation_balance = ZeroDivisionError
       THEN /\ meetings' = atomic_rollback(p).meetings
            /\ speakers' = atomic_rollback(p).speakers
            /\ messages' = atomic_rollback(p).messages
            /\ metrics' = atomic_rollback(p).metrics
            /\ pc' = [pc EXCEPT ![p] = "failed"]
            /\ cur' = [cur EXCEPT ![p].raised_at = "aggregates"]
       ELSE /\ meetings' = {m \in meetings : m.id # p} \cup {meeting_aggregates(p)}
            /\ pc' = [pc EXCEPT ![p] = "done"]
            /\ UNCHANGED <<cur, speakers, messages, metrics>>
    /\ UNCHANGED <<req, parserVars, balanceVars, analysisVars>>

\* a step of the pass raises (a database error, a value the column refuses):
\* transaction.atomic() rolls back, upload_transcript reports the error
Raise(p) ==
    /\ pc[p] \in InAtomic
    /\ meetings' = atomic_rollback(p).meetings
    /\ speakers' = atomic_rollback(p).speakers
    /\ messages' = atomic_rollback(p).messages
    /\ metrics' = atomic_rollback(p).metrics
    /\ pc' = [pc EXCEPT ![p] = "failed"]
    /\ cur' = [cur EXCEPT ![p].raised_at = pc[p]]
    /\ UNCHANGED <<req, parserVars, balanceVars, analysisVars>>

\* views.py delete_meeting (POST): meeting.delete()
DeleteMeeting(m) ==
    /\ pc[m] = "done"
    /\ meetings' = delete_cascade(m).meetings
    /\ speakers' = delete_cascade(m).speakers
    /\ messages' = delete_cascade(m).messages
    /\ metrics' = delete_cascade(m).metrics
    /\ pc' = [pc EXCEPT ![m] = "deleted"]
    /\ UNCHANGED <<req, cur, parserVars, balanceVars, analysisVars>>

Next ==
    \E p \in Passes :
        \/ \E text \in UploadTexts : UploadStart(p, text)
        \/ GetSpeaker(p)
        \/ CreateSpeaker(p)
        \/ CreateMessage(p)
        \/ SpeakerMetrics(p)
        \/ Aggregates(p)
        \/ Raise(p)
        \/ DeleteMeeting(p)

Spec == Init /\ [][Next]_vars

\* the Message rows a second call of analyze_and_save creates for the meeting
\* of pass p: every speaker is found by get_or_create
messages_again(p) ==
    {[id |-> <<p, 2, i>>, meeting |-> p,
      speaker |-> (CHOOSE s \in speaker_named(p, clean_speaker_name(req[p].parsed_data[i].speaker)) :
                      TRUE).id,
      content |-> req[p].parsed_data[i].content,
      timestamp |-> req[p].parsed_data[i].timestamp,
      sequence_order |-> req[p].parsed_data[i].sequence,
      word_count |-> word_count(req[p].parsed_data[i].content)] : i \in DOMAIN req[p].parsed_data}

\* models.py, MeetingMetrics unique_together = ['meeting', 'speaker']: the
\* insert of a second row for the pair fails with IntegrityError
metrics_pair_taken(p, sid) == \E r \in metrics : r.meeting = p /\ r.speaker = sid

\* MeetingAnalyzer(meeting, parsed_messages).analyze_and_save() called again on
\* a meeting that was analyzed, outside any transaction: the loop creates the
\* Message rows, then _calculate_speaker_metrics creates a MeetingMetrics row
\* per speaker of the meeting
AnalyzeAgain(p) ==
    /\ pc[p] = "done"
    /\ messages' = messages \cup messages_again(p)
    /\ IF \E sid \in speakers_of_meeting(p) : metrics_pair_taken(p, sid)
       THEN /\ pc' = [pc EXCEPT ![p] = "failed_again"]
            /\ cur' = [cur EXCEPT ![p].raised_at = "speaker_metrics"]
            /\ UNCHANGED <<meetings, metrics>>
       ELSE /\ metrics' = metrics \cup {metrics_row(p, sid) : sid \in speakers_of_meeting(p)}
            /\ meetings' = {m \in meetings : m.id # p} \cup {meeting_aggregates(p)}
            /\ pc' = [pc EXCEPT ![p] = "done_again"]
            /\ UNCHANGED cur
    /\ UNCHANGED <<req, speakers, parserVars, balanceVars, analysisVars>>

NextAgain ==
    \E p \in Passes :
        \/ \E text \in UploadTexts : UploadStart(p, text)
        \/ GetSpeaker(p)
        \/ CreateSpeaker(p)
        \/ CreateMessage(p)
        \/ SpeakerMetrics(p)
        \/ Aggregates(p)
        \/ Raise(p)
        \/ DeleteMeeting(p)
        \/ AnalyzeAgain(p)

SpecAgain == Init /\ [][NextAgain]_vars

----------------------------------------------------------------------------
(* Claims about the upload pass and the database *)

MessagesOf(p) == {m \in messages : m.meeting = p}
MetricsOf(p) == {m \in metrics : m.meeting = p}

NoRowsOf(p) ==
    /\ \A m \in meetings : m.id # p
    /\ \A s \in speakers : s.by # p
    /\ MessagesOf(p) = {}
    /\ MetricsOf(p) = {}

\* the Meeting of pass p with its aggregates, a Message per parsed utterance,
\* and a MeetingMetrics row and a Speaker for every speaker of a message
PassComplete(p) ==
    /\ \E m \in meetings :
          /\ m.id = p
          /\ m.total_messages = Len(req[p].parsed_data)
          /\ m.participation_balance # None
    /\ Cardinality(MessagesOf(p)) = Len(req[p].parsed_data)
    /\ \A i \in DOMAIN req[p].parsed_data :
          \E m \in MessagesOf(p) :
              /\ m.sequence_order = i
              /\ m.content = req[p].parsed_data[i].content
              /\ \E s \in speakers : s.id = m.speaker
              /\ \E r \in MetricsOf(p) : r.speaker = m.speaker

\* C1: a pass in which a step raised leaves no Meeting, Message, MeetingMetrics
\* or Speaker row it wrote; a pass in which none raised leaves its Meeting with
\* the aggregates, all its Messages and all its MeetingMetrics.
C1_UploadAllOrNothing ==
    \A p \in Passes :
        /\ pc[p] = "failed" => NoRowsOf(p)
        /\ pc[p] = "done" => PassComplete(p)

\* a pass raised in its last step, with everything but the aggregates written,
\* next to a pass that committed
C1_Witness ==
    \E p, q \in Passes :
        /\ pc[p] = "failed" /\ cur[p].raised_at = "aggregates"
        /\ pc[q] = "done" /\ MessagesOf(q) # {}

\* the raw speaker name of the utterance a Message was made from
RawSpeaker(m) == req[m.meeting].parsed_data[m.sequence_order].speaker

\* C2: whatever the interleaving of the passes, no two Speaker rows hold the
\* same name, and every Message references the one row of its speaker's
\* normalized name.
C2_OneSpeakerPerName ==
    /\ \A s1, s2 \in speakers : s1.name = s2.name => s1 = s2
    /\ \A m \in messages :
          \E s \in speakers : s.id = m.speaker /\ s.name = clean_speaker_name(RawSpeaker(m))

\* two passes used a name for the first time together: both gets found
\* nothing, one pass inserted the row and committed, and the other's insert
\* failed (IntegrityError) and get_or_create gave it the committed row
C2_Witness ==
    \E p, q \in Passes :
        /\ p # q /\ pc[p] = "create_message" /\ pc[q] = "done"
        /\ cur[p].retried /\ cur[p].speaker[1] = q
        /\ \E m \in MessagesOf(q) : m.speaker = cur[p].speaker

\* C3: a request whose transcript the validator rejects or the parser turns
\* into an empty list ends without starting the pass, and leaves every table
\* as it was.
C3_RejectedUploadWritesNothing ==
    [][\A p \in Passes :
          (/\ pc[p] = "idle" /\ pc'[p] # "idle"
           /\ (~validate(req'[p].text) \/ parse(req'[p].text) = <<>>))
          => (pc'[p] \in {"invalid", "unparsed"} /\ UNCHANGED dbVars)]_vars

\* one request was rejected by the validator and one by the empty parse
C3_Witness ==
    \E p, q \in Passes : pc[p] = "invalid" /\ pc[q] = "unparsed"

CommittedSpeakers == {s \in speakers : Committed(s.by)}

\* C4: deleting a Meeting removes that Meeting, its Messages and its
\* MeetingMetrics and nothing else; no step removes a committed Speaker.
C4_DeleteKeepsSpeakers ==
    [][/\ \A m \in Passes :
            (pc[m] = "done" /\ pc'[m] = "deleted")
            => /\ meetings' = {x \in meetings : x.id # m}
               /\ messages' = {x \in messages : x.meeting # m}
               /\ metrics' = {x \in metrics : x.meeting # m}
               /\ speakers' = speakers
       /\ CommittedSpeakers \subseteq speakers']_vars

\* a Meeting was deleted and a Speaker its pass introduced is still there,
\* left without any Message
C4_Witness ==
    \E m \in Passes :
        /\ pc[m] = "deleted" /\ MessagesOf(m) = {} /\ MetricsOf(m) = {}
        /\ \E s \in speakers : s.by = m /\ \A x \in messages : x.speaker # s.id

\* C5: after a successful pass the meeting has one MeetingMetrics row for each
\* speaker with a message in it and no other row, and the rows'
\* total_messages sum to the meeting's total_messages, the number of parsed
\* utterances.
C5_OneMetricsRowPerSpeaker ==
    \A p \in Passes :
        pc[p] = "done" =>
            /\ {r.speaker : r \in MetricsOf(p)} = {m.speaker : m \in MessagesOf(p)}
            /\ Cardinality(MetricsOf(p)) = Cardinality({r.speaker : r \in MetricsOf(p)})
            /\ \A r \in MetricsOf(p) :
                  r.total_messages = Cardinality({m \in MessagesOf(p) : m.speaker = r.speaker})
            /\ \A m \in meetings :
                  m.id = p =>
                    /\ m.total_messages = Len(req[p].parsed_data)
                    /\ m.total_messages =
                         SumFn([r \in MetricsOf(p) |-> r.total_messages], MetricsOf(p))

\* a committed meeting with two rows, one of a speaker with two messages, whose
\* speakers also have messages in another committed meeting
C5_Witness ==
    \E p, q \in Passes :
        /\ p # q /\ pc[p] = "done" /\ pc[q] = "done"
        /\ Cardinality(MetricsOf(p)) = 2
        /\ \E r \in MetricsOf(p) : r.total_messages = 2
        /\ \E m \in MessagesOf(p), x \in MessagesOf(q) : m.speaker = x.speaker

\* a name with its letters lower-cased and its whitespace runs made one space
FoldName(name) == join_space(split_ws([i \in DOMAIN name |-> lower(name[i])]))

\* the format parse() detects for a transcript
FormatOf(text) == detect_format(split_lines(text))

\* C6: utterances whose raw speaker names differ only in letter case or in
\* whitespace get the same Speaker row and are counted in one MeetingMetrics
\* row; the parser's output holds the raw name.
C6_SpeakerByNormalizedName ==
    /\ \A m1, m2 \in messages :
          FoldName(RawSpeaker(m1)) = FoldName(RawSpeaker(m2)) => m1.speaker = m2.speaker
    /\ \A p \in Passes :
          pc[p] = "done" =>
            \A r \in MetricsOf(p), s \in speakers :
                s.id = r.speaker =>
                    r.total_messages =
                        Cardinality({m \in MessagesOf(p) :
                                        FoldName(RawSpeaker(m)) = FoldName(s.name)})
    /\ \A p \in Passes :
          \A i \in DOMAIN req[p].parsed_data :
              req[p].parsed_data[i].speaker =
                  SpeakerPart(FormatOf(req[p].text),
                              AcceptedLines(FormatOf(req[p].text), split_lines(req[p].text))[i])

\* committed meetings in which names that differ in case, and names that
\* differ in whitespace, share a Speaker, the raw names being kept un-normalized
C6_Witness ==
    /\ \E m1, m2 \in messages :
          /\ Committed(m1.meeting) /\ m1.meeting = m2.meeting /\ m1.speaker = m2.speaker
          /\ Len(RawSpeaker(m1)) = Len(RawSpeaker(m2)) /\ RawSpeaker(m1) # RawSpeaker(m2)
          /\ clean_speaker_name(RawSpeaker(m1)) # RawSpeaker(m1)
    /\ \E m1, m2 \in messages :
          /\ Committed(m1.meeting) /\ m1.meeting = m2.meeting /\ m1.speaker = m2.speaker
          /\ Len(RawSpeaker(m1)) # Len(RawSpeaker(m2))

----------------------------------------------------------------------------
(* meetings/analyzers.py: MeetingAnalyzer._calculate_engagement_score *)

RECURSIVE pow10(_)
pow10(n) == IF n = 0 THEN 1 ELSE 10 * pow10(n - 1)

\* the integer nearest to the fraction x, a tie going to the even one
round_half_even(x) ==
    LET q == x[1] \div x[2]
        r == x[1] - q * x[2]
    IN  IF 2 * r < x[2] THEN q
        ELSE IF 2 * r > x[2] THEN q + 1
        ELSE IF q % 2 = 0 THEN q ELSE q + 1

\* round(x, ndigits)
round(x, ndigits) == Frac(round_half_even(FMul(x, FInt(pow10(ndigits)))), pow10(ndigits))

\* word_score without the min(..., 100)
word_score_uncapped(avg_words) == FMul(FDiv(avg_words, FInt(20)), FInt(100))

\* word_score = min(avg_words / 20 * 100, 100)
word_score(avg_words) == FMin(FMul(FDiv(avg_words, FInt(20)), FInt(100)), FInt(100))

\* question_score = min(questions / messages * 100, 100) if messages > 0 else 0
question_score(questions, msgs) ==
    IF msgs > 0 THEN FMin(FMul(Frac(questions, msgs), FInt(100)), FInt(100)) ELSE FInt(0)

\* participation_score = min(participation, 100)
participation_score(participation) == FMin(participation, FInt(100))

WordWeight == Frac(4, 10)
QuestionWeight == Frac(3, 10)
ParticipationWeight == Frac(3, 10)

\* MeetingAnalyzer._calculate_engagement_score
calculate_engagement_score(avg_words, questions, msgs, participation) ==
    round(FAdd(FAdd(FMul(word_score(avg_words), WordWeight),
                    FMul(question_score(questions, msgs), QuestionWeight)),
               FMul(participation_score(participation), ParticipationWeight)),
          2)

\* A run of _calculate_engagement_score on given arguments
MaxCount == 3
AvgWordsValues == {FInt(0), Frac(7, 2), FInt(20), FInt(21), FInt(1000)}
ParticipationValues == {FInt(0), Frac(100, 3), FInt(50), FInt(100), FInt(150)}

InitEngagement ==
    /\ engagement_args \in [avg_words : AvgWordsValues, questions : 0..MaxCount,
                            messages : 0..MaxCount, participation : ParticipationValues]
    /\ engagement = None /\ team_meetings = <<>> /\ trend = None /\ risk = None
    /\ health = None /\ insight = None
    /\ apc = "start"
    /\ ParserIdle /\ UploadIdle /\ BalanceIdle

CalculateEngagement ==
    /\ apc = "start"
    /\ engagement' = calculate_engagement_score(
                         engagement_args.avg_words, engagement_args.questions,
                         engagement_args.messages, engagement_args.participation)
    /\ apc' = "done"
    /\ UNCHANGED <<engagement_args, team_meetings, trend, risk, health, insight,
                   parserVars, passVars, dbVars, balanceVars>>

NextEngagement == CalculateEngagement

SpecEngagement == InitEngagement /\ [][NextEngagement]_vars

\* C12: for non-negative arguments the engagement score is in [0, 100]; each
\* of the three components is at most 100 and at least 0 before it is
\* weighted by 0.4, 0.3 and 0.3, and the question component is 0 for a speaker
\* with no messages.
C12_EngagementInRange ==
    apc = "done" =>
        /\ FLeq(FInt(0), engagement) /\ FLeq(engagement, FInt(100))
        /\ FLeq(FInt(0), word_score(engagement_args.avg_words))
        /\ FLeq(word_score(engagement_args.avg_words), FInt(100))
        /\ FLeq(FInt(0), question_score(engagement_args.questions, engagement_args.messages))
        /\ FLeq(question_score(engagement_args.questions, engagement_args.messages), FInt(100))
        /\ FLeq(FInt(0), participation_score(engagement_args.participation))
        /\ FLeq(participation_score(engagement_args.participation), FInt(100))
        /\ engagement_args.messages = 0 =>
              question_score(engagement_args.questions, engagement_args.messages) = FInt(0)
        /\ FAdd(FAdd(WordWeight, QuestionWeight), ParticipationWeight) = FInt(1)

\* 1000 words per message, questions but no messages, participation 150: the
\* caps give 0.4 * 100 + 0.3 * 0 + 0.3 * 100 = 70
C12_Witness ==
    /\ apc = "done"
    /\ engagement_args.avg_words = FInt(1000)
    /\ engagement_args.questions > 0 /\ engagement_args.messages = 0
    /\ engagement_args.participation = FInt(150)
    /\ engagement = FInt(70)

----------------------------------------------------------------------------
(* meetings/trend_analyzer.py: TrendAnalyzer                                  *)
(*                                                                            *)
(* A meeting handed to the analyzer is a record of the Meeting columns the    *)
(* analyses read, with its MeetingMetrics rows as a list:                     *)
(*   [date, avg_sentiment, participation_balance, total_messages, metrics]    *)
(* A nullable column holds NoneFloat or a fraction. An analysis leaves in     *)
(* `trend` its locals at the return statement: the dict it returns (result)   *)
(* and, on the two-window path, self.meetings, mid_point, the two window      *)
(* averages and the unrounded change_pct; an exception leaves `raised` in     *)
(* place of result.                                                           *)

\* meeting.date.strftime('%Y-%m-%d'): the day of a timestamp
TicksPerDay == 2
strftime(date) == date \div TicksPerDay

\* sorted(meetings, key=lambda m: m.date): stable, ascending
RECURSIVE insert_by_date(_, _)
insert_by_date(ms, m) ==
    IF ms = <<>> THEN <<m>>
    ELSE IF m.date < ms[1].date THEN <<m>> \o ms
    ELSE <<ms[1]>> \o insert_by_date(Tail(ms), m)

RECURSIVE sorted_by_date(_)
sorted_by_date(ms) ==
    IF ms = <<>> THEN <<>>
    ELSE insert_by_date(sorted_by_date(SubSeq(ms, 1, Len(ms) - 1)), ms[Len(ms)])

\* None in a place that otherwise holds a float (a null FloatField, an empty
\* aggregate): the pair with denominator 0
NoneFloat == <<0, 0>>

\* x or 0.0
or_zero(x) == IF x = NoneFloat THEN FInt(0) ELSE x

\* statistics.mean of a non-empty list
mean(xs) == FDiv(FSum(xs), FInt(Len(xs)))

FAbs(x) == <<Abs(x[1]), x[2]>>

\* the 0.001 added to the earlier average in the denominators
Epsilon == Frac(1, 1000)

\* meeting.metrics.aggregate(Avg('engagement_score'))['engagement_score__avg']
engagement_score__avg(m) ==
    IF m.metrics = <<>> THEN NoneFloat
    ELSE mean([i \in DOMAIN m.metrics |-> m.metrics[i].engagement_score])

\* the value an analysis reads from one meeting
trend_value(analysis, m) ==
    CASE analysis = "sentiment" -> or_zero(m.avg_sentiment)
      [] analysis = "participation" -> or_zero(m.participation_balance)
      [] analysis = "engagement" -> round(or_zero(engagement_score__avg(m)), 2)
      [] analysis = "message_volume" -> FInt(m.total_messages)

trend_values(analysis, ms) == [i \in DOMAIN ms |-> trend_value(analysis, ms[i])]

\* data_points of an analysis
data_point(analysis, m) == [date |-> strftime(m.date), value |-> trend_value(analysis, m)]
trend_data_points(analysis, ms) == [i \in DOMAIN ms |-> data_point(analysis, ms[i])]

\* the thresholds of the trend labels, in percent
SentimentTrendThreshold == 10
ParticipationTrendThreshold == 5
EngagementTrendThreshold == 10
VolumeTrendThreshold == 15

\* classification with both comparisons inclusive
trend_label_inclusive(change_pct, threshold, up, down) ==
    IF FLeq(FInt(threshold), change_pct) THEN up
    ELSE IF FLeq(change_pct, FInt(-threshold)) THEN down
    ELSE "stable"

\* if change_pct > threshold: up; elif change_pct < -threshold: down; else 'stable'
trend_label(change_pct, threshold, up, down) ==
    IF FLess(FInt(threshold), change_pct) THEN up
    ELSE IF FLess(change_pct, FInt(-threshold)) THEN down
    ELSE "stable"

label_of(analysis, change_pct) ==
    CASE analysis = "sentiment" ->
            trend_label(change_pct, SentimentTrendThreshold, "improving", "declining")
      [] analysis = "participation" ->
            trend_label(change_pct, ParticipationTrendThreshold, "improving", "declining")
      [] analysis = "engagement" ->
            trend_label(change_pct, EngagementTrendThreshold, "improving", "declining")
      [] analysis = "message_volume" ->
            trend_label(change_pct, VolumeTrendThreshold, "increasing", "decreasing")

\* the digits the current and previous averages are rounded to
avg_digits(analysis) ==
    CASE analysis = "sentiment" -> 4
      [] analysis = "participation" -> 4
      [] analysis = "engagement" -> 2
      [] analysis = "message_volume" -> 1

\* the dict of the final return statement
trend_result(analysis, change_pct, recent_avg, earlier_avg, data_points) ==
    IF analysis = "participation"
    THEN [trend |-> label_of(analysis, change_pct),
          change_percentage |-> round(change_pct, 2),
          current_balance |-> round(recent_avg, avg_digits(analysis)),
          previous_balance |-> round(earlier_avg, avg_digits(analysis)),
          data_points |-> data_points]
    ELSE [trend |-> label_of(analysis, change_pct),
          change_percentage |-> round(change_pct, 2),
          current_avg |-> round(recent_avg, avg_digits(analysis)),
          previous_avg |-> round(earlier_avg, avg_digits(analysis)),
          data_points |-> data_points]

\* the dict returned when len(self.meetings) < 2
insufficient_data(analysis) ==
    CASE analysis = "participation" ->
            [trend |-> "insufficient_data", change_percentage |-> FInt(0),
             current_balance |-> FInt(0), previous_balance |-> FInt(0), data_points |-> <<>>]
      [] analysis = "message_volume" ->
            [trend |-> "insufficient_data", change_percentage |-> FInt(0), data_points |-> <<>>]
      [] OTHER ->
            [trend |-> "insufficient_data", change_percentage |-> FInt(0),
             current_avg |-> FInt(0), previous_avg |-> FInt(0), data_points |-> <<>>]

\* analyze_sentiment_trend: abs(earlier_avg + 0.001)
sentiment_denominator(earlier_avg) == FAbs(FAdd(earlier_avg, Epsilon))

\* the other analyses: (earlier + 0.001)
plain_denominator(earlier_avg) == FAdd(earlier_avg, Epsilon)

denominator_of(analysis, earlier_avg) ==
    IF analysis = "sentiment" THEN sentiment_denominator(earlier_avg)
    ELSE plain_denominator(earlier_avg)

\* change_pct = ((recent - earlier) / denominator) * 100, and the return
trend_change(analysis, ms, mid, earlier_avg, recent_avg, denominator) ==
    IF denominator[1] = 0
    THEN [raised |-> ZeroDivisionError, meetings |-> ms, mid_point |-> mid,
          earlier_avg |-> earlier_avg, recent_avg |-> recent_avg]
    ELSE [result |-> trend_result(
                        analysis,
                        FMul(FDiv(FSub(recent_avg, earlier_avg), denominator), FInt(100)),
                        recent_avg, earlier_avg, trend_data_points(analysis, ms)),
          meetings |-> ms, mid_point |-> mid,
          earlier_avg |-> earlier_avg, recent_avg |-> recent_avg,
          change_pct |-> FMul(FDiv(FSub(recent_avg, earlier_avg), denominator), FInt(100))]

\* the averages of values[:mid] and values[mid:]
trend_windows(analysis, ms, mid, values, earlier_avg) ==
    trend_change(analysis, ms, mid, earlier_avg,
                 mean(SubSeq(values, mid + 1, Len(values))),
                 denominator_of(analysis, earlier_avg))

\* windows split one place later: values[:mid + 1] and values[mid + 1:]
mid_rounded_up(n) == (n + 1) \div 2

\* mid_point = len(self.meetings) // 2
mid_point_of(n) == n \div 2

\* one of the four analyses, on self.meetings
analyze_trend(analysis, ms) ==
    IF Len(ms) < 2 THEN [result |-> insufficient_data(analysis)]
    ELSE trend_windows(analysis, ms, mid_point_of(Len(ms)), trend_values(analysis, ms),
                       mean(SubSeq(trend_values(analysis, ms), 1, mid_point_of(Len(ms)))))

analyze_sentiment_trend(ms) == analyze_trend("sentiment", ms)
analyze_participation_trend(ms) == analyze_trend("participation", ms)
analyze_engagement_trend(ms) == analyze_trend("engagement", ms)
analyze_message_volume_trend(ms) == analyze_trend("message_volume", ms)

----------------------------------------------------------------------------
(* Runs of the four trend analyses on given meetings *)

MaxMeetings == 3
MaxDate == 2
Dates == 1..MaxDate

Meeting(date, avg_sentiment, participation_balance, total_messages, rows) ==
    [date |-> date, avg_sentiment |-> avg_sentiment,
     participation_balance |-> participation_balance,
     total_messages |-> total_messages, metrics |-> rows]

MetricsRow(speaker, participation_percentage, engagement_score) ==
    [speaker |-> speaker, participation_percentage |-> participation_percentage,
     engagement_score |-> engagement_score]

\* two speakers at 60% and 40%
TwoSpeakers == <<MetricsRow("Al", FInt(60), FInt(60)), MetricsRow("Bo", FInt(40), FInt(50))>>

\* avg_sentiment: null, negative, -0.001, and 0.796 -> 0.8757 (exactly +10%)
SentimentValues ==
    {NoneFloat, Frac(-1, 2), Frac(-1, 1000), Frac(1, 10), Frac(1, 2),
     Frac(796, 1000), Frac(8757, 10000)}
\* participation_balance: null, and 0.399 -> 0.419 (exactly +5%)
BalanceValues == {NoneFloat, Frac(3, 10), Frac(399, 1000), Frac(419, 1000), FInt(1)}
\* total_messages
VolumeValues == {0, 4, 5, 10}
\* the MeetingMetrics rows of a meeting, by their engagement scores
EngagementRows ==
    {<<>>,
     <<MetricsRow("Al", FInt(100), FInt(30))>>,
     TwoSpeakers,
     <<MetricsRow("Al", FInt(50), Frac(8012, 100)), MetricsRow("Bo", FInt(50), Frac(2001, 100))>>}

\* meetings that differ in date and in the column one analysis reads
TrendSlices ==
    {{Meeting(d, v, FInt(1), 5, TwoSpeakers) : d \in Dates, v \in SentimentValues},
     {Meeting(d, Frac(1, 10), v, 5, TwoSpeakers) : d \in Dates, v \in BalanceValues},
     {Meeting(d, Frac(1, 10), FInt(1), v, TwoSpeakers) : d \in Dates, v \in VolumeValues},
     {Meeting(d, Frac(1, 10), FInt(1), 5, v) : d \in Dates, v \in EngagementRows}}

AnalysisStart(ms) ==
    /\ team_meetings = ms
    /\ engagement_args = None /\ engagement = None
    /\ trend = None /\ risk = None /\ health = None /\ insight = None
    /\ apc = "start"
    /\ ParserIdle /\ UploadIdle /\ BalanceIdle

InitTrend ==
    \E n \in 0..MaxMeetings, slice \in TrendSlices :
        \E ms \in [1..n -> slice] : AnalysisStart(ms)

Analyses == {"sentiment", "participation", "engagement", "message_volume"}

\* TrendAnalyzer(meetings): __init__ sorts the meetings; then one analysis
\* runs to its return
TrendReturn(analysis) ==
    /\ trend' = analyze_trend(analysis, sorted_by_date(team_meetings))
    /\ apc' = analysis
    /\ UNCHANGED <<engagement_args, engagement, team_meetings, risk, health, insight,
                   parserVars, passVars, dbVars, balanceVars>>

AnalyzeSentimentTrend ==
    /\ apc = "start"
    /\ TrendReturn("sentiment")

AnalyzeParticipationTrend ==
    /\ apc = "start"
    /\ TrendReturn("participation")

AnalyzeEngagementTrend ==
    /\ apc = "start"
    /\ TrendReturn("engagement")

AnalyzeMessageVolumeTrend ==
    /\ apc = "start"
    /\ TrendReturn("message_volume")

NextTrend ==
    \/ AnalyzeSentimentTrend
    \/ AnalyzeParticipationTrend
    \/ AnalyzeEngagementTrend
    \/ AnalyzeMessageVolumeTrend

SpecTrend == InitTrend /\ [][NextTrend]_vars

Returned == apc \in Analyses /\ "result" \in DOMAIN trend
TwoWindows == apc \in Analyses /\ "mid_point" \in DOMAIN trend

\* the key of the current and of the previous average in an analysis's result
current_key(analysis) == IF analysis = "participation" THEN "current_balance" ELSE "current_avg"
previous_key(analysis) == IF analysis = "participation" THEN "previous_balance" ELSE "previous_avg"

\* C13: with fewer than 2 meetings each of the four analyses returns, without
\* raising, trend 'insufficient_data', change_percentage 0, a current average
\* of 0, a previous average of 0 and no data points.
C13_InsufficientDataResult ==
    (apc \in Analyses /\ Len(team_meetings) < 2) =>
        /\ "result" \in DOMAIN trend
        /\ trend.result.trend = "insufficient_data"
        /\ trend.result.change_percentage = FInt(0)
        /\ trend.result.data_points = <<>>
        /\ current_key(apc) \in DOMAIN trend.result
        /\ trend.result[current_key(apc)] = FInt(0)
        /\ previous_key(apc) \in DOMAIN trend.result
        /\ trend.result[previous_key(apc)] = FInt(0)

\* C15: for n >= 2 meetings every analysis works on the meetings in ascending
\* date order and compares the first floor(n/2) of them with the rest: both
\* windows are non-empty, every earlier meeting is dated no later than every
\* recent one, the two averages are the means over exactly these windows, and
\* for odd n the middle meeting is in the recent window.
C15_TwoContiguousWindows ==
    (apc \in Analyses /\ Len(team_meetings) >= 2) =>
        /\ "mid_point" \in DOMAIN trend
        /\ Len(trend.meetings) = Len(team_meetings)
        /\ \E f \in Permutations(DOMAIN team_meetings) :
              \A i \in DOMAIN team_meetings : trend.meetings[i] = team_meetings[f[i]]
        /\ trend.mid_point = Len(team_meetings) \div 2
        /\ 1 <= trend.mid_point /\ trend.mid_point < Len(team_meetings)
        /\ \A i \in 1..trend.mid_point :
              \A j \in (trend.mid_point + 1)..Len(team_meetings) :
                  trend.meetings[i].date <= trend.meetings[j].date
        /\ trend.earlier_avg =
              mean(SubSeq(trend_values(apc, trend.meetings), 1, trend.mid_point))
        /\ trend.recent_avg =
              mean(SubSeq(trend_values(apc, trend.meetings),
                          trend.mid_point + 1, Len(team_meetings)))
        /\ Len(team_meetings) % 2 = 1 => (Len(team_meetings) + 1) \div 2 > trend.mid_point

\* three meetings handed over latest first: the earliest alone is the earlier
\* window, the middle one is averaged into the recent window
C15_Witness ==
    /\ apc = "sentiment" /\ Len(team_meetings) = 3
    /\ team_meetings[1].date > team_meetings[3].date
    /\ "mid_point" \in DOMAIN trend /\ trend.mid_point = 1
    /\ trend.earlier_avg = or_zero(team_meetings[3].avg_sentiment)
    /\ trend.recent_avg # trend.earlier_avg
    /\ trend.recent_avg # or_zero(trend.meetings[3].avg_sentiment)

\* (recent_avg - earlier_avg) / (|earlier_avg| + 0.001) * 100
change_percentage_of(recent_avg, earlier_avg) ==
    FMul(FDiv(FSub(recent_avg, earlier_avg), FAdd(FAbs(earlier_avg), Epsilon)), FInt(100))

\* C16: in every analysis of 2 or more meetings the reported change_percentage
\* is (recent_avg - earlier_avg) / (|earlier_avg| + 0.001) * 100 (to the 2
\* places it is rounded to), also for a negative earlier sentiment average,
\* and the change is negative whenever recent_avg < earlier_avg.
C16_ChangePercentage ==
    (apc \in Analyses /\ Len(team_meetings) >= 2) =>
        /\ "result" \in DOMAIN trend
        /\ trend.result.change_percentage =
              round(change_percentage_of(trend.recent_avg, trend.earlier_avg), 2)
        /\ FLess(trend.recent_avg, trend.earlier_avg) => FLess(trend.change_pct, FInt(0))

\* C17: the label is 'improving' ('increasing' for message volume) iff the
\* change is above the analysis's threshold, 'declining' ('decreasing') iff it
\* is below minus the threshold, and 'stable' on the boundaries and between
\* them; the thresholds are 10 for sentiment and engagement, 5 for
\* participation and 15 for message volume.
C17_TrendLabelThresholds ==
    (apc \in Analyses /\ "change_pct" \in DOMAIN trend) =>
        /\ apc \in {"sentiment", "engagement"} =>
              /\ trend.result.trend = "improving" <=> FLess(FInt(10), trend.change_pct)
              /\ trend.result.trend = "declining" <=> FLess(trend.change_pct, FInt(-10))
              /\ trend.result.trend = "stable" <=>
                    (FLeq(FInt(-10), trend.change_pct) /\ FLeq(trend.change_pct, FInt(10)))
        /\ apc = "participation" =>
              /\ trend.result.trend = "improving" <=> FLess(FInt(5), trend.change_pct)
              /\ trend.result.trend = "declining" <=> FLess(trend.change_pct, FInt(-5))
              /\ trend.result.trend = "stable" <=>
                    (FLeq(FInt(-5), trend.change_pct) /\ FLeq(trend.change_pct, FInt(5)))
        /\ apc = "message_volume" =>
              /\ trend.result.trend = "increasing" <=> FLess(FInt(15), trend.change_pct)
              /\ trend.result.trend = "decreasing" <=> FLess(trend.change_pct, FInt(-15))
              /\ trend.result.trend = "stable" <=>
                    (FLeq(FInt(-15), trend.change_pct) /\ FLeq(trend.change_pct, FInt(15)))

\* a sentiment change of exactly +10% (0.796 to 0.8757) is labelled stable
C17_Witness ==
    /\ apc = "sentiment" /\ "change_pct" \in DOMAIN trend
    /\ trend.change_pct = FInt(10)
    /\ trend.result.trend = "stable"
    /\ trend.result.change_percentage = FInt(10)

----------------------------------------------------------------------------
(* meetings/risk_detector.py: RiskDetector                                    *)
(*                                                                            *)
(* A detector leaves in `risk` the dict it returns, or `raised` when an       *)
(* exception leaves it. An indicator is the text of its message with the      *)
(* number formatted into it; a meeting's metrics list is in table order, the  *)
(* order the database breaks ties of an ORDER BY in.                          *)

SENTIMENT_DECLINE_THRESHOLD == -15
PARTICIPATION_IMBALANCE_THRESHOLD == Frac(1, 2)
ENGAGEMENT_DECLINE_THRESHOLD == -20
NEGATIVE_SENTIMENT_THRESHOLD == Frac(-3, 10)

\* sum of the weights of the rules that fired
RECURSIVE sum_weights(_)
sum_weights(fired) == IF fired = <<>> THEN 0 ELSE fired[1].weight + sum_weights(Tail(fired))

indicators_of(fired) == [i \in DOMAIN fired |-> fired[i].indicator]

\* a rule that appends its indicator and leaves risk_score as it was
rule_without_score(condition, weight, message, value) ==
    IF condition THEN <<[weight |-> 0, indicator |-> [message |-> message, value |-> value]]>>
    ELSE <<>>

\* one scoring rule: indicators.append(...); risk_score += weight
rule(condition, weight, message, value) ==
    IF condition THEN <<[weight |-> weight, indicator |-> [message |-> message, value |-> value]]>>
    ELSE <<>>

\* the level with every threshold exclusive
level_of_exclusive(risk_score, high, medium) ==
    IF risk_score > high THEN "high"
    ELSE IF risk_score > medium THEN "medium"
    ELSE IF risk_score > 0 THEN "low"
    ELSE "none"

\* if risk_score >= high: 'high'; elif >= medium: 'medium'; elif > 0: 'low'; else 'none'
level_of(risk_score, high, medium) ==
    IF risk_score >= high THEN "high"
    ELSE IF risk_score >= medium THEN "medium"
    ELSE IF risk_score > 0 THEN "low"
    ELSE "none"

\* the dict returned for too few meetings by the conflict and burnout detectors
need_more_meetings ==
    [risk_level |-> "unknown", risk_score |-> 0, indicators |-> <<>>,
     recommendation |-> "Need more meetings for analysis"]

conflict_recommendation(risk_level) ==
    CASE risk_level = "high" ->
            "URGENT: Schedule 1-on-1s to address team tensions. Consider conflict resolution facilitation."
      [] risk_level = "medium" ->
            "Monitor closely. Consider team retrospective to surface concerns."
      [] risk_level = "low" -> "Minor concerns detected. Keep monitoring trends."
      [] OTHER -> "No conflict risks detected. Team communication appears healthy."

\* the four rules of detect_conflict_risk, in the order they are checked
conflict_rules(sentiment_trend, participation_trend) ==
    rule(/\ sentiment_trend.trend = "declining"
         /\ FLess(sentiment_trend.change_percentage, FInt(SENTIMENT_DECLINE_THRESHOLD)),
         30, "Sentiment declined by %", round(FAbs(sentiment_trend.change_percentage), 1))
    \o rule(FLess(sentiment_trend.current_avg, NEGATIVE_SENTIMENT_THRESHOLD),
            25, "Recent sentiment is negative", round(sentiment_trend.current_avg, 2))
    \o rule(FLess(participation_trend.current_balance, PARTICIPATION_IMBALANCE_THRESHOLD),
            20, "Low participation balance", round(participation_trend.current_balance, 2))
    \o rule(participation_trend.trend = "declining",
            15, "Participation becoming more unbalanced", FInt(0))

conflict_result(fired) ==
    [risk_level |-> level_of(sum_weights(fired), 50, 30),
     risk_score |-> sum_weights(fired),
     indicators |-> indicators_of(fired),
     recommendation |-> conflict_recommendation(level_of(sum_weights(fired), 50, 30))]

\* detect_conflict_risk once both trend analyses have run
conflict_after_trends(sentiment_locals, participation_locals) ==
    IF "raised" \in DOMAIN sentiment_locals THEN [raised |-> sentiment_locals.raised]
    ELSE IF "raised" \in DOMAIN participation_locals THEN [raised |-> participation_locals.raised]
    ELSE conflict_result(conflict_rules(sentiment_locals.result, participation_locals.result))

\* RiskDetector.detect_conflict_risk, on self.meetings
detect_conflict_risk(ms) ==
    IF Len(ms) < 3 THEN need_more_meetings
    ELSE conflict_after_trends(analyze_sentiment_trend(ms), analyze_participation_trend(ms))

burnout_recommendation(risk_level) ==
    CASE risk_level = "high" ->
            "URGENT: Team showing burnout signs. Consider workload reduction and wellness check-ins."
      [] risk_level = "medium" ->
            "Watch for burnout. Consider lighter meeting schedule and workload assessment."
      [] risk_level = "low" -> "Some fatigue indicators. Monitor team energy levels."
      [] OTHER -> "No burnout risks detected. Team engagement appears healthy."

\* the four rules of detect_burnout_risk, in the order they are checked
burnout_rules(engagement_trend, message_trend, sentiment_trend) ==
    rule(/\ engagement_trend.trend = "declining"
         /\ FLess(engagement_trend.change_percentage, FInt(ENGAGEMENT_DECLINE_THRESHOLD)),
         35, "Engagement dropped %", round(FAbs(engagement_trend.change_percentage), 1))
    \o rule(/\ message_trend.trend = "decreasing"
            /\ FLess(message_trend.change_percentage, FInt(-20)),
            25, "Communication volume down %", round(FAbs(message_trend.change_percentage), 1))
    \o rule(sentiment_trend.trend = "declining",
            20, "Team sentiment declining", FInt(0))
    \o rule(FLess(engagement_trend.current_avg, FInt(40)),
            20, "Low team engagement /100", round(engagement_trend.current_avg, 1))

\* the burnout result with the cut-offs of the conflict detector
burnout_result_conflict_cutoffs(fired) ==
    [risk_level |-> level_of(sum_weights(fired), 50, 30),
     risk_score |-> sum_weights(fired),
     indicators |-> indicators_of(fired),
     recommendation |-> burnout_recommendation(level_of(sum_weights(fired), 50, 30))]

burnout_result(fired) ==
    [risk_level |-> level_of(sum_weights(fired), 60, 35),
     risk_score |-> sum_weights(fired),
     indicators |-> indicators_of(fired),
     recommendation |-> burnout_recommendation(level_of(sum_weights(fired), 60, 35))]

\* detect_burnout_risk once the three trend analyses have run
burnout_after_trends(engagement_locals, message_locals, sentiment_locals) ==
    IF "raised" \in DOMAIN engagement_locals THEN [raised |-> engagement_locals.raised]
    ELSE IF "raised" \in DOMAIN message_locals THEN [raised |-> message_locals.raised]
    ELSE IF "raised" \in DOMAIN sentiment_locals THEN [raised |-> sentiment_locals.raised]
    ELSE burnout_result(burnout_rules(engagement_locals.result, message_locals.result,
                                      sentiment_locals.result))

\* RiskDetector.detect_burnout_risk, on self.meetings
detect_burnout_risk(ms) ==
    IF Len(ms) < 3 THEN need_more_meetings
    ELSE burnout_after_trends(analyze_engagement_trend(ms), analyze_message_volume_trend(ms),
                              analyze_sentiment_trend(ms))

TypeError == "TypeError"

\* ORDER BY -participation_percentage: descending, ties in table order
RECURSIVE insert_by_participation(_, _)
insert_by_participation(rows, r) ==
    IF rows = <<>> THEN <<r>>
    ELSE IF FLess(rows[1].participation_percentage, r.participation_percentage) THEN <<r>> \o rows
    ELSE <<rows[1]>> \o insert_by_participation(Tail(rows), r)

RECURSIVE order_by_participation(_)
order_by_participation(rows) ==
    IF rows = <<>> THEN <<>>
    ELSE insert_by_participation(order_by_participation(SubSeq(rows, 1, Len(rows) - 1)),
                                 rows[Len(rows)])

\* the dict returned when there is no meeting, or the most recent one has
\* fewer than two MeetingMetrics rows
no_dominance_data ==
    [risk_level |-> "unknown", risk_score |-> 0, indicators |-> <<>>,
     dominant_speakers |-> <<>>]

dominance_recommendation(risk_level) ==
    CASE risk_level = "high" ->
            "Conversation dominated by few people. Actively solicit input from quieter members."
      [] risk_level = "medium" ->
            "Consider round-robin speaking order or explicit turn-taking."
      [] risk_level = "low" -> "Minor imbalance detected. Encourage broader participation."
      [] OTHER -> "Participation appears balanced across team members."

\* the rule on the top speaker with its second branch unreachable
top_speaker_rule_single(rows) ==
    IF FLess(FInt(50), rows[1].participation_percentage)
    THEN <<[weight |-> 40,
            indicator |-> [message |-> "speaks % of the time", name |-> rows[1].speaker,
                           value |-> round(rows[1].participation_percentage, 1)]]>>
    ELSE <<>>

\* if top_participation > 50: ... += 40; elif top_participation > 40: ... += 25
top_speaker_rule(rows) ==
    IF FLess(FInt(50), rows[1].participation_percentage)
    THEN <<[weight |-> 40,
            indicator |-> [message |-> "speaks % of the time", name |-> rows[1].speaker,
                           value |-> round(rows[1].participation_percentage, 1)]]>>
    ELSE IF FLess(FInt(40), rows[1].participation_percentage)
    THEN <<[weight |-> 25,
            indicator |-> [message |-> "dominates conversation (%)", name |-> rows[1].speaker,
                           value |-> round(rows[1].participation_percentage, 1)]]>>
    ELSE <<>>

\* dominant_speakers.append(metrics[0].speaker.name), in both branches
dominant_speakers_of(rows) ==
    IF FLess(FInt(40), rows[1].participation_percentage) THEN <<rows[1].speaker>> ELSE <<>>

top_two_participation(rows) ==
    FAdd(rows[1].participation_percentage, rows[2].participation_percentage)

\* the rules of detect_dominance_issues, in the order they are checked
dominance_rules(recent_meeting, rows) ==
    top_speaker_rule(rows)
    \o rule(FLess(FInt(75), top_two_participation(rows)),
            20, "Top 2 speakers control % of conversation",
            round(top_two_participation(rows), 1))
    \o rule(FLess(recent_meeting.participation_balance, Frac(1, 2)),
            15, "Very unbalanced participation",
            round(recent_meeting.participation_balance, 2))

dominance_result(fired, rows) ==
    [risk_level |-> level_of(sum_weights(fired), 50, 30),
     risk_score |-> sum_weights(fired),
     indicators |-> indicators_of(fired),
     dominant_speakers |-> dominant_speakers_of(rows),
     recommendation |-> dominance_recommendation(level_of(sum_weights(fired), 50, 30))]

\* detect_dominance_issues on the most recent meeting and its ordered rows;
\* a null participation_balance makes `None < 0.5` raise
dominance_of(recent_meeting, rows) ==
    IF Len(rows) < 2 THEN no_dominance_data
    ELSE IF recent_meeting.participation_balance = NoneFloat THEN [raised |-> TypeError]
    ELSE dominance_result(dominance_rules(recent_meeting, rows), rows)

\* RiskDetector.detect_dominance_issues, on self.meetings
detect_dominance_issues(ms) ==
    IF ms = <<>> THEN no_dominance_data
    ELSE dominance_of(ms[Len(ms)], order_by_participation(ms[Len(ms)].metrics))

\* meeting.metrics.all(): Meta.ordering is ['-participation_percentage']
metrics_all(m) == order_by_participation(m.metrics)

\* the rows the two loops of detect_disengagement visit, in order
RECURSIVE engagement_entries(_)
engagement_entries(ms) ==
    IF ms = <<>> THEN <<>> ELSE metrics_all(ms[1]) \o engagement_entries(Tail(ms))

\* the keys of speaker_engagement, in insertion order
RECURSIVE speaker_names(_)
speaker_names(entries) ==
    IF entries = <<>> THEN <<>>
    ELSE IF \E i \in 1..(Len(entries) - 1) : entries[i].speaker = entries[Len(entries)].speaker
         THEN speaker_names(SubSeq(entries, 1, Len(entries) - 1))
         ELSE Append(speaker_names(SubSeq(entries, 1, Len(entries) - 1)),
                     entries[Len(entries)].speaker)

\* scores = [e['engagement'] for e in engagements]
scores_of(name, entries) ==
    [i \in DOMAIN SelectSeq(entries, LAMBDA e : e.speaker = name) |->
        SelectSeq(entries, LAMBDA e : e.speaker = name)[i].engagement_score]

first_half_avg(scores) == mean(SubSeq(scores, 1, Len(scores) \div 2))
second_half_avg(scores) == mean(SubSeq(scores, (Len(scores) \div 2) + 1, Len(scores)))

\* ((second_half_avg - first_half_avg) / (first_half_avg + 0.001)) * 100;
\* engagement scores are not negative
decline_pct(scores) ==
    FMul(FDiv(FSub(second_half_avg(scores), first_half_avg(scores)),
              FAdd(first_half_avg(scores), Epsilon)),
         FInt(100))

\* what one speaker adds to at_risk_speakers
at_risk_entry(name, scores) ==
    IF Len(scores) < 2 THEN <<>>
    ELSE IF \/ FLess(decline_pct(scores), FInt(-25))
            \/ FLess(second_half_avg(scores), FInt(35))
    THEN <<[name |-> name,
            current_engagement |-> round(second_half_avg(scores), 1),
            decline_percentage |-> round(decline_pct(scores), 1)]>>
    ELSE <<>>

RECURSIVE at_risk_speakers(_, _)
at_risk_speakers(names, entries) ==
    IF names = <<>> THEN <<>>
    ELSE at_risk_entry(names[1], scores_of(names[1], entries))
         \o at_risk_speakers(Tail(names), entries)

disengagement_result(at_risk) ==
    IF Len(at_risk) >= 2
    THEN [risk_level |-> "high", at_risk_speakers |-> at_risk,
          recommendation |->
              "Multiple team members showing disengagement. Schedule 1-on-1 check-ins."]
    ELSE IF Len(at_risk) = 1
    THEN [risk_level |-> "medium", at_risk_speakers |-> at_risk,
          recommendation |-> at_risk[1].name \o " may be disengaging. Consider a check-in."]
    ELSE [risk_level |-> "none", at_risk_speakers |-> at_risk,
          recommendation |-> "All team members appear engaged."]

\* every meeting instead of the last three
all_meetings(ms) == ms

\* self.meetings[-3:]
recent_meetings(ms) == SubSeq(ms, Len(ms) - 2, Len(ms))

\* RiskDetector.detect_disengagement, on self.meetings
detect_disengagement(ms) ==
    IF Len(ms) < 3
    THEN [risk_level |-> "unknown", at_risk_speakers |-> <<>>,
          recommendation |-> "Need more meetings for analysis"]
    ELSE disengagement_result(
             at_risk_speakers(speaker_names(engagement_entries(recent_meetings(ms))),
                              engagement_entries(recent_meetings(ms))))

\* the values round(x, ndigits) can give for a float next to the fraction x:
\* when x is halfway between two neighbours, the float may lie on either side
round_outcomes(x, ndigits) ==
    IF 2 * ((x[1] * pow10(ndigits)) % x[2]) = x[2]
    THEN {Frac((x[1] * pow10(ndigits)) \div x[2], pow10(ndigits)),
          Frac(((x[1] * pow10(ndigits)) \div x[2]) + 1, pow10(ndigits))}
    ELSE {round(x, ndigits)}

\* the blend with the weights of conflict and burnout exchanged
total_score_exchanged(conflict_score, burnout_score, dominance_score) ==
    FAdd(FAdd(FMul(FInt(conflict_score), Frac(35, 100)),
              FMul(FInt(burnout_score), Frac(40, 100))),
         FMul(FInt(dominance_score), Frac(25, 100)))

\* conflict['risk_score'] * 0.4 + burnout['risk_score'] * 0.35 + dominance['risk_score'] * 0.25
total_score_of(conflict_score, burnout_score, dominance_score) ==
    FAdd(FAdd(FMul(FInt(conflict_score), Frac(40, 100)),
              FMul(FInt(burnout_score), Frac(35, 100))),
         FMul(FInt(dominance_score), Frac(25, 100)))

overall_level(total_score) ==
    IF FLeq(FInt(50), total_score) THEN "critical"
    ELSE IF FLeq(FInt(35), total_score) THEN "high"
    ELSE IF FLeq(FInt(15), total_score) THEN "medium"
    ELSE "low"

overall_color(total_score) ==
    IF FLeq(FInt(50), total_score) THEN "danger"
    ELSE IF FLeq(FInt(35), total_score) THEN "warning"
    ELSE IF FLeq(FInt(15), total_score) THEN "info"
    ELSE "success"

\* the dicts _calculate_overall_risk can return for a total score
overall_results(total_score) ==
    {[score |-> score, level |-> overall_level(total_score), color |-> overall_color(total_score)] :
        score \in round_outcomes(total_score, 1)}

\* _calculate_overall_risk once the three detectors have run: what it can
\* return, or the exception a detector raised
overall_after_detectors(conflict, burnout, dominance) ==
    IF "raised" \in DOMAIN conflict THEN {[raised |-> conflict.raised]}
    ELSE IF "raised" \in DOMAIN burnout THEN {[raised |-> burnout.raised]}
    ELSE IF "raised" \in DOMAIN dominance THEN {[raised |-> dominance.raised]}
    ELSE overall_results(total_score_of(conflict.risk_score, burnout.risk_score,
                                        dominance.risk_score))

\* RiskDetector._calculate_overall_risk, on self.meetings
calculate_overall_risk(ms) ==
    overall_after_detectors(detect_conflict_risk(ms), detect_burnout_risk(ms),
                            detect_dominance_issues(ms))

----------------------------------------------------------------------------
(* The detectors on bounded teams: RiskDetector(meetings).detect_*()          *)

\* avg_sentiment: 0.1 -> 0.088 declines by less than 15%, -0.3 is the
\* boundary of the negative-sentiment rule
ConflictSentiments == {Frac(1, 10), Frac(11, 125), Frac(-3, 10), Frac(-2, 5), Frac(-1, 1000)}
\* participation_balance: 0.5 is the boundary of the imbalance rule
ConflictBalances == {FInt(1), Frac(1, 2), Frac(3, 10)}

\* rows whose engagement averages are 55, 46 and 30
BurnoutRows ==
    {TwoSpeakers,
     <<MetricsRow("Al", FInt(60), FInt(52)), MetricsRow("Bo", FInt(40), FInt(40))>>,
     <<MetricsRow("Al", FInt(100), FInt(30))>>}
\* total_messages: 10 -> 8 is a change of -19.998%, rounded to -20.0
BurnoutVolumes == {10, 8, 5}
BurnoutSentiments == {Frac(1, 10), Frac(-2, 5)}

\* the percentage without the factor 100
participation_ratio(speaker_message_count, total_messages) ==
    IF total_messages > 0 THEN Frac(speaker_message_count, total_messages) ELSE FInt(0)

\* participation_pct = (speaker_message_count / total_messages * 100)
\*                     if total_messages > 0 else 0
participation_pct(speaker_message_count, total_messages) ==
    IF total_messages > 0 THEN Frac(speaker_message_count * 100, total_messages) ELSE FInt(0)

\* what analyze_and_save leaves for a meeting in which Al sent a messages
\* and Bo b: the participation_balance and the two rows, in table order
analyzed_pair(a, b) ==
    <<calculate_participation_balance(<<participation_pct(a, a + b), participation_pct(b, a + b)>>),
      <<MetricsRow("Al", participation_pct(a, a + b), FInt(50)),
        MetricsRow("Bo", participation_pct(b, a + b), FInt(50))>>>>

\* participation_balance and MeetingMetrics rows of a meeting, in table
\* order; the last one is a meeting and two rows added on the admin site
DominanceCases ==
    {<<FInt(1), <<>>>>,
     <<FInt(1), <<MetricsRow("Al", FInt(100), FInt(30))>>>>,
     <<Frac(3, 10), TwoSpeakers>>,
     <<FInt(1), <<MetricsRow("Al", FInt(50), FInt(60)), MetricsRow("Bo", FInt(50), FInt(50))>>>>,
     <<FInt(1), <<MetricsRow("Cy", FInt(10), FInt(20)), MetricsRow("Bo", FInt(45), FInt(50)),
                  MetricsRow("Al", FInt(45), FInt(60))>>>>,
     <<Frac(3, 10), <<MetricsRow("Al", FInt(40), FInt(60)), MetricsRow("Bo", FInt(35), FInt(50)),
                      MetricsRow("Cy", FInt(25), FInt(20))>>>>,
     <<FInt(1), <<MetricsRow("Al", FInt(40), FInt(60)), MetricsRow("Bo", FInt(35), FInt(50)),
                  MetricsRow("Cy", FInt(25), FInt(20))>>>>,
     <<Frac(1, 2), <<MetricsRow("Bo", FInt(15), FInt(50)), MetricsRow("Al", FInt(55), FInt(60)),
                     MetricsRow("Cy", FInt(15), FInt(20)), MetricsRow("Di", FInt(15), FInt(20))>>>>,
     analyzed_pair(1, 1),
     analyzed_pair(1, 2),
     <<NoneFloat, <<MetricsRow("Al", FInt(0), FInt(0)), MetricsRow("Bo", FInt(0), FInt(0))>>>>}

\* meetings that differ in the columns one detector reads
RiskSlices ==
    {{Meeting(1, s, b, 5, TwoSpeakers) : s \in ConflictSentiments, b \in ConflictBalances},
     {Meeting(1, s, FInt(1), v, rows) : s \in BurnoutSentiments, v \in BurnoutVolumes,
                                        rows \in BurnoutRows},
     {Meeting(d, Frac(1, 10), c[1], 5, c[2]) : d \in Dates, c \in DominanceCases}}

\* teams for the disengagement detector have one meeting more than it reads
MaxTeam == 4

\* rows in which Al's engagement is 60, 40, 35, 30 or missing
DisengagementRows ==
    {<<>>,
     TwoSpeakers,
     <<MetricsRow("Al", FInt(60), FInt(40)), MetricsRow("Bo", FInt(40), FInt(50))>>,
     <<MetricsRow("Al", FInt(100), FInt(35))>>,
     <<MetricsRow("Al", FInt(100), FInt(30))>>,
     <<MetricsRow("Bo", FInt(100), FInt(45))>>}

DisengagementSlice ==
    {Meeting(d, Frac(1, 10), FInt(1), 5, rows) : d \in Dates, rows \in DisengagementRows}

InitRisk ==
    \/ \E n \in 0..MaxMeetings, slice \in RiskSlices :
          \E ms \in [1..n -> slice] : AnalysisStart(ms)
    \/ \E n \in 0..MaxTeam :
          \E ms \in [1..n -> DisengagementSlice] : AnalysisStart(ms)

Detectors == {"conflict", "burnout", "dominance", "disengagement"}

\* RiskDetector(meetings): __init__ sorts the meetings; then one detector
\* runs to its return or to the exception that leaves it
DetectorReturn(detector, result) ==
    /\ risk' = result
    /\ apc' = detector
    /\ UNCHANGED <<engagement_args, engagement, team_meetings, trend, health, insight,
                   parserVars, passVars, dbVars, balanceVars>>

DetectConflictRisk ==
    /\ apc = "start"
    /\ DetectorReturn("conflict", detect_conflict_risk(sorted_by_date(team_meetings)))

DetectBurnoutRisk ==
    /\ apc = "start"
    /\ DetectorReturn("burnout", detect_burnout_risk(sorted_by_date(team_meetings)))

DetectDominanceIssues ==
    /\ apc = "start"
    /\ DetectorReturn("dominance", detect_dominance_issues(sorted_by_date(team_meetings)))

DetectDisengagement ==
    /\ apc = "start"
    /\ DetectorReturn("disengagement", detect_disengagement(sorted_by_date(team_meetings)))

CalculateOverallRisk ==
    /\ apc = "start"
    /\ \E result \in calculate_overall_risk(sorted_by_date(team_meetings)) :
          DetectorReturn("overall", result)

NextRisk ==
    \/ DetectConflictRisk
    \/ DetectBurnoutRisk
    \/ DetectDominanceIssues
    \/ DetectDisengagement
    \/ CalculateOverallRisk

SpecRisk == InitRisk /\ [][NextRisk]_vars

\* the detector returned a dict
Detected(detector) == apc = detector /\ "risk_level" \in DOMAIN risk

----------------------------------------------------------------------------
(* meetings/utils.py: calculate_team_health_index                             *)
(*                                                                            *)
(* `health` is the dict returned, without its icon (an emoji that goes with   *)
(* the level), or `raised` when a trend analysis raised.                      *)

\* the dict returned for fewer than 2 meetings
health_unknown == [score |-> FInt(0), level |-> "unknown", color |-> "secondary", components |-> <<>>]

\* volume_score: 80 if 'stable', 70 if 'increasing', else 50
volume_score(volume_trend) ==
    IF volume_trend = "stable" THEN FInt(80)
    ELSE IF volume_trend = "increasing" THEN FInt(70)
    ELSE FInt(50)

\* sentiment_score = (sentiment['current_avg'] + 1) * 50
sentiment_score(current_avg) == FMul(FAdd(current_avg, FInt(1)), FInt(50))

\* the weighted average with equal weights
health_score_unweighted(sentiment_s, participation_s, engagement_s, volume_s) ==
    FAdd(FAdd(FMul(sentiment_s, Frac(25, 100)), FMul(participation_s, Frac(25, 100))),
         FAdd(FMul(engagement_s, Frac(25, 100)), FMul(volume_s, Frac(25, 100))))

\* sentiment_score * 0.30 + participation_score * 0.30 + engagement_score * 0.20
\* + volume_score * 0.20
health_score_of(sentiment_s, participation_s, engagement_s, volume_s) ==
    FAdd(FAdd(FMul(sentiment_s, Frac(30, 100)), FMul(participation_s, Frac(30, 100))),
         FAdd(FMul(engagement_s, Frac(20, 100)), FMul(volume_s, Frac(20, 100))))

health_level(health_score) ==
    IF FLeq(FInt(80), health_score) THEN "excellent"
    ELSE IF FLeq(FInt(65), health_score) THEN "good"
    ELSE IF FLeq(FInt(50), health_score) THEN "fair"
    ELSE "poor"

health_color(health_score) ==
    IF FLeq(FInt(80), health_score) THEN "success"
    ELSE IF FLeq(FInt(65), health_score) THEN "info"
    ELSE IF FLeq(FInt(50), health_score) THEN "warning"
    ELSE "danger"

health_components(sentiment, participation, engagement_trend, volume) ==
    [sentiment |-> [score |-> round(sentiment_score(sentiment.current_avg), 1),
                    trend |-> sentiment.trend, current |-> sentiment.current_avg],
     participation |-> [score |-> round(FMul(participation.current_balance, FInt(100)), 1),
                        trend |-> participation.trend,
                        current |-> participation.current_balance],
     engagement |-> [score |-> round(engagement_trend.current_avg, 1),
                     trend |-> engagement_trend.trend,
                     current |-> engagement_trend.current_avg],
     volume |-> [score |-> round(volume_score(volume.trend), 1), trend |-> volume.trend]]

\* the dict built from the four trend results and the weighted average
health_result(sentiment, participation, engagement_trend, volume, health_score) ==
    [score |-> round(health_score, 1),
     level |-> health_level(health_score),
     color |-> health_color(health_score),
     components |-> health_components(sentiment, participation, engagement_trend, volume)]

\* calculate_team_health_index once the four trend analyses have run
health_after_trends(sentiment, participation, engagement_trend, volume) ==
    IF "raised" \in DOMAIN sentiment THEN [raised |-> sentiment.raised]
    ELSE health_result(sentiment.result, participation.result, engagement_trend.result,
                       volume.result,
                       health_score_of(sentiment_score(sentiment.result.current_avg),
                                       FMul(participation.result.current_balance, FInt(100)),
                                       engagement_trend.result.current_avg,
                                       volume_score(volume.result.trend)))

\* calculate_team_health_index(meetings); TrendAnalyzer sorts the meetings
calculate_team_health_index(ms) ==
    IF Len(ms) < 2 THEN health_unknown
    ELSE health_after_trends(analyze_sentiment_trend(sorted_by_date(ms)),
                             analyze_participation_trend(sorted_by_date(ms)),
                             analyze_engagement_trend(sorted_by_date(ms)),
                             analyze_message_volume_trend(sorted_by_date(ms)))

----------------------------------------------------------------------------
(* meetings/insights_generator.py: TeamInsightsGenerator                      *)
(*                                                                            *)
(* A message is its opening words and the numbers formatted into it.          *)

IndexError == "IndexError"

\* TrendAnalyzer.get_comprehensive_analysis: the four analyses in order
get_comprehensive_analysis(ms) ==
    IF "raised" \in DOMAIN analyze_sentiment_trend(ms)
    THEN [raised |-> analyze_sentiment_trend(ms).raised]
    ELSE [sentiment |-> analyze_sentiment_trend(ms).result,
          participation |-> analyze_participation_trend(ms).result,
          engagement |-> analyze_engagement_trend(ms).result,
          message_volume |-> analyze_message_volume_trend(ms).result,
          meeting_count |-> Len(ms)]

\* RiskDetector.get_comprehensive_risk_analysis once its five calls are made
risk_analysis_of(conflict, burnout, dominance, disengagement, overall) ==
    IF "raised" \in DOMAIN conflict THEN [raised |-> conflict.raised]
    ELSE IF "raised" \in DOMAIN burnout THEN [raised |-> burnout.raised]
    ELSE IF "raised" \in DOMAIN dominance THEN [raised |-> dominance.raised]
    ELSE [conflict_risk |-> conflict, burnout_risk |-> burnout,
          dominance_issues |-> dominance, disengagement_risk |-> disengagement,
          overall_risk_score |-> overall]

\* RiskDetector.get_comprehensive_risk_analysis: what it can return
get_comprehensive_risk_analysis(ms) ==
    {risk_analysis_of(detect_conflict_risk(ms), detect_burnout_risk(ms),
                      detect_dominance_issues(ms), detect_disengagement(ms), overall) :
        overall \in calculate_overall_risk(ms)}

abs_change(trend_dict) == round(FAbs(trend_dict.change_percentage), 1)

\* _generate_main_narrative, the scenarios on sentiment and engagement first
main_narrative(trends) ==
    CASE trends.sentiment.trend = "declining" /\ trends.engagement.trend = "declining" ->
            [message |-> "Your team is showing early warning signs of collaborative fatigue.",
             values |-> <<abs_change(trends.sentiment), abs_change(trends.engagement)>>]
      [] trends.sentiment.trend = "improving" /\ trends.engagement.trend = "improving" ->
            [message |-> "Team collaboration is strengthening.",
             values |-> <<abs_change(trends.sentiment), abs_change(trends.engagement)>>]
      [] trends.sentiment.trend = "improving" /\ trends.engagement.trend = "declining" ->
            [message |-> "Your team shows a complex pattern",
             values |-> <<abs_change(trends.sentiment), abs_change(trends.engagement)>>]
      [] trends.sentiment.trend = "declining" /\ trends.engagement.trend = "improving" ->
            [message |-> "Team members are engaging more actively",
             values |-> <<abs_change(trends.engagement), abs_change(trends.sentiment)>>]
      [] OTHER ->
            IF /\ trends.participation.trend = "declining"
               /\ FLess(trends.participation.current_balance, Frac(1, 2))
            THEN [message |-> "Conversation dynamics are becoming increasingly imbalanced.",
                  values |-> <<abs_change(trends.participation)>>]
            ELSE IF /\ trends.sentiment.trend = "stable"
                    /\ FLess(trends.sentiment.current_avg, FInt(0))
            THEN [message |-> "Team sentiment has stabilized but remains in negative territory",
                  values |-> <<round(trends.sentiment.current_avg, 2)>>]
            ELSE [message |-> "Team collaboration appears stable", values |-> <<>>]

\* return None
no_concern == [concern |-> None]

\* a concern that quotes indicators[0] of a detector's result
quoting_first_indicator(concern, result) ==
    IF result.indicators = <<>> THEN [raised |-> IndexError]
    ELSE [concern |-> concern, quoted |-> result.indicators[1]]

\* the checks of _identify_primary_concern that follow the three risk checks
concern_from_trends(trends) ==
    IF /\ trends.engagement.trend = "declining"
       /\ FLess(FInt(15), FAbs(trends.engagement.change_percentage))
    THEN [concern |-> "Team engagement has dropped", quoted |-> abs_change(trends.engagement)]
    ELSE IF /\ trends.sentiment.trend = "declining"
            /\ FLess(FInt(10), FAbs(trends.sentiment.change_percentage))
    THEN [concern |-> "Team morale declining", quoted |-> abs_change(trends.sentiment)]
    ELSE no_concern

\* _identify_primary_concern with the conflict check before the burnout check
identify_conflict_first(trends, risks) ==
    IF risks.conflict_risk.risk_level = "high"
    THEN quoting_first_indicator("Conflict indicators emerging", risks.conflict_risk)
    ELSE IF risks.burnout_risk.risk_level = "high"
    THEN quoting_first_indicator("Burnout risk detected", risks.burnout_risk)
    ELSE IF /\ risks.dominance_issues.risk_level = "high"
            /\ risks.dominance_issues.dominant_speakers # <<>>
    THEN [concern |-> "is dominating",
          quoted |-> <<risks.dominance_issues.dominant_speakers[1],
                       risks.dominance_issues.risk_score>>]
    ELSE concern_from_trends(trends)

\* TeamInsightsGenerator._identify_primary_concern
identify_primary_concern(trends, risks) ==
    IF risks.burnout_risk.risk_level = "high"
    THEN quoting_first_indicator("Burnout risk detected", risks.burnout_risk)
    ELSE IF risks.conflict_risk.risk_level = "high"
    THEN quoting_first_indicator("Conflict indicators emerging", risks.conflict_risk)
    ELSE IF /\ risks.dominance_issues.risk_level = "high"
            /\ risks.dominance_issues.dominant_speakers # <<>>
    THEN [concern |-> "is dominating",
          quoted |-> <<risks.dominance_issues.dominant_speakers[1],
                       risks.dominance_issues.risk_score>>]
    ELSE concern_from_trends(trends)

\* TeamInsightsGenerator._generate_recommended_focus
recommended_focus(trends, risks) ==
    CASE risks.burnout_risk.risk_level \in {"high", "medium"} ->
            "Schedule 1-on-1s with team members"
      [] OTHER ->
    CASE risks.conflict_risk.risk_level \in {"high", "medium"} ->
            "Hold a team retrospective"
      [] OTHER ->
    CASE risks.dominance_issues.risk_level \in {"high", "medium"} ->
            "Implement structured turn-taking in meetings"
      [] OTHER ->
    CASE trends.engagement.trend = "declining" -> "Check in with individual contributors"
      [] OTHER ->
    CASE trends.sentiment.trend = "declining" -> "Review recent decisions and process changes."
      [] OTHER ->
    CASE trends.participation.trend = "declining" ->
            "Create meeting norms that ensure balanced airtime."
      [] OTHER ->
    CASE trends.sentiment.trend = "improving" -> "Continue current collaboration practices."
      [] OTHER -> "Maintain current team dynamics monitoring."

\* the banner built from the trends and the risks
banner_of(trends, risks) ==
    IF "raised" \in DOMAIN trends THEN [raised |-> trends.raised]
    ELSE IF "raised" \in DOMAIN risks THEN [raised |-> risks.raised]
    ELSE IF "raised" \in DOMAIN identify_primary_concern(trends, risks)
    THEN [raised |-> IndexError]
    ELSE [main_message |-> main_narrative(trends),
          primary_concern |-> identify_primary_concern(trends, risks),
          recommended_focus |-> recommended_focus(trends, risks)]

\* TeamInsightsGenerator(meetings).generate_ai_insight_banner(): what it can
\* return; self.meetings[0] of no meeting raises
generate_ai_insight_banner(ms) ==
    IF ms = <<>> THEN {[raised |-> IndexError]}
    ELSE IF Len(ms) < 2
    THEN {[main_message |-> [message |-> "First meeting analyzed.",
                             values |-> <<ms[1].total_messages>>],
           primary_concern |-> no_concern,
           recommended_focus |->
               "Continue monitoring participation balance and engagement patterns."]}
    ELSE {banner_of(get_comprehensive_analysis(ms), risks) :
             risks \in get_comprehensive_risk_analysis(ms)}

\* rows whose engagement averages are 12.5 and 87.5
HealthRows ==
    {<<MetricsRow("Al", FInt(60), FInt(15)), MetricsRow("Bo", FInt(40), FInt(10))>>,
     <<MetricsRow("Al", FInt(60), FInt(90)), MetricsRow("Bo", FInt(40), FInt(85))>>}

\* meetings that put the health score on and around its cut-offs
HealthSlice ==
    {Meeting(1, s, b, v, rows) : s \in {Frac(1, 10), Frac(-1, 2)},
                                 b \in {FInt(1), Frac(1, 2)}, v \in {5, 10},
                                 rows \in HealthRows}

InitInsights ==
    \E n \in 0..MaxMeetings, slice \in RiskSlices \cup {HealthSlice} :
        \E ms \in [1..n -> slice] : AnalysisStart(ms)

CalculateTeamHealthIndex ==
    /\ apc = "start"
    /\ health' = calculate_team_health_index(team_meetings)
    /\ apc' = "health"
    /\ UNCHANGED <<engagement_args, engagement, team_meetings, trend, risk, insight,
                   parserVars, passVars, dbVars, balanceVars>>

GenerateAiInsightBanner ==
    /\ apc = "start"
    /\ insight' \in generate_ai_insight_banner(sorted_by_date(team_meetings))
    /\ apc' = "banner"
    /\ UNCHANGED <<engagement_args, engagement, team_meetings, trend, risk, health,
                   parserVars, passVars, dbVars, balanceVars>>

NextInsights ==
    \/ CalculateTeamHealthIndex
    \/ GenerateAiInsightBanner

SpecInsights == InitInsights /\ [][NextInsights]_vars

----------------------------------------------------------------------------
(* Claims about the risk detectors                                            *)

\* the detector had too little to work on: fewer than 3 meetings, or for
\* dominance no meeting or fewer than 2 rows in the most recent one
TooLittleData ==
    \/ apc \in {"conflict", "burnout", "disengagement"} /\ Len(team_meetings) < 3
    \/ /\ apc = "dominance"
       /\ \/ team_meetings = <<>>
          \/ Len(sorted_by_date(team_meetings)[Len(team_meetings)].metrics) < 2

\* C14: a detector that has too little data returns, without raising, a
\* result whose risk_level is 'unknown', whose risk_score is 0 and whose
\* indicators list is empty.
C14_UnknownWithoutData ==
    TooLittleData =>
        /\ {"risk_level", "risk_score", "indicators"} \subseteq DOMAIN risk
        /\ risk.risk_level = "unknown"
        /\ risk.risk_score = 0
        /\ risk.indicators = <<>>

\* a rule's weight when it fires
weight_if(fires, weight) == IF fires THEN weight ELSE 0

\* high iff score >= high, medium iff medium <= score < high, low iff
\* 0 < score < medium, none iff score = 0
LevelMatches(result, high, medium) ==
    /\ result.risk_level = "high" <=> result.risk_score >= high
    /\ result.risk_level = "medium" <=> (medium <= result.risk_score /\ result.risk_score < high)
    /\ result.risk_level = "low" <=> (0 < result.risk_score /\ result.risk_score < medium)
    /\ result.risk_level = "none" <=> result.risk_score = 0

\* the dict a trend analysis returns for the team
trend_of(analysis) == analyze_trend(analysis, sorted_by_date(team_meetings)).result

conflict_score_claimed(sentiment_trend, participation_trend) ==
    weight_if(/\ sentiment_trend.trend = "declining"
              /\ FLess(sentiment_trend.change_percentage, FInt(-15)), 30)
    + weight_if(FLess(sentiment_trend.current_avg, Frac(-3, 10)), 25)
    + weight_if(FLess(participation_trend.current_balance, Frac(1, 2)), 20)
    + weight_if(participation_trend.trend = "declining", 15)

\* C18: with at least 3 meetings, the conflict score a returned result
\* carries is the sum of the weights of the rules that fire (30, 25, 20, 15),
\* the level follows the cut-offs 50 and 30, and four rules firing give 90
\* and 'high'.
C18_ConflictScore ==
    (Detected("conflict") /\ Len(team_meetings) >= 3) =>
        /\ risk.risk_score = conflict_score_claimed(trend_of("sentiment"),
                                                    trend_of("participation"))
        /\ LevelMatches(risk, 50, 30)
        /\ Len(risk.indicators) = 4 => (risk.risk_score = 90 /\ risk.risk_level = "high")

\* all four conflict rules fired
C18_Witness ==
    /\ Detected("conflict") /\ Len(team_meetings) >= 3
    /\ Len(risk.indicators) = 4 /\ risk.risk_score = 90

burnout_score_claimed(engagement_trend, message_trend, sentiment_trend) ==
    weight_if(/\ engagement_trend.trend = "declining"
              /\ FLess(engagement_trend.change_percentage, FInt(-20)), 35)
    + weight_if(/\ message_trend.trend = "decreasing"
                /\ FLess(message_trend.change_percentage, FInt(-20)), 25)
    + weight_if(sentiment_trend.trend = "declining", 20)
    + weight_if(FLess(engagement_trend.current_avg, FInt(40)), 20)

\* C19: with at least 3 meetings, the burnout score a returned result carries
\* is the sum of the weights of the rules that fire (35, 25, 20, 20) and the
\* level follows the cut-offs 60 and 35.
C19_BurnoutScore ==
    (Detected("burnout") /\ Len(team_meetings) >= 3) =>
        /\ risk.risk_score = burnout_score_claimed(trend_of("engagement"),
                                                   trend_of("message_volume"),
                                                   trend_of("sentiment"))
        /\ LevelMatches(risk, 60, 35)

\* a burnout score between the two cut-offs, from the engagement rule and
\* the sentiment rule
C19_Witness ==
    /\ Detected("burnout") /\ Len(team_meetings) >= 3
    /\ risk.risk_score = 55 /\ risk.risk_level = "medium"
    /\ trend_of("sentiment").trend = "declining"

\* the meeting's date is the latest of the team
MostRecent(m) == \A i \in DOMAIN team_meetings : team_meetings[i].date <= m.date

\* rows[i] has the highest participation and rows[j] the highest of the rest
TopTwo(rows, i, j) ==
    /\ i # j
    /\ \A k \in DOMAIN rows :
          FLeq(rows[k].participation_percentage, rows[i].participation_percentage)
    /\ \A k \in DOMAIN rows \ {i} :
          FLeq(rows[k].participation_percentage, rows[j].participation_percentage)

dominance_score_claimed(top, second, participation_balance) ==
    (IF FLess(FInt(50), top) THEN 40 ELSE IF FLess(FInt(40), top) THEN 25 ELSE 0)
    + weight_if(FLess(FInt(75), FAdd(top, second)), 20)
    + weight_if(FLess(participation_balance, Frac(1, 2)), 15)

\* C20: a dominance result that is not 'unknown' is computed from a meeting
\* of the latest date alone: 40 for a top speaker above 50, else 25 above 40,
\* that speaker and nobody else being listed as dominant, plus 20 for the top
\* two above 75, plus 15 for a participation_balance below 0.5; the level
\* follows the cut-offs 50 and 30.
C20_DominanceScore ==
    (Detected("dominance") /\ risk.risk_level # "unknown") =>
        /\ \E n \in DOMAIN team_meetings :
              /\ MostRecent(team_meetings[n])
              /\ \E i, j \in DOMAIN team_meetings[n].metrics :
                    /\ TopTwo(team_meetings[n].metrics, i, j)
                    /\ risk.risk_score =
                          dominance_score_claimed(
                              team_meetings[n].metrics[i].participation_percentage,
                              team_meetings[n].metrics[j].participation_percentage,
                              team_meetings[n].participation_balance)
                    /\ risk.dominant_speakers =
                          IF FLess(FInt(40), team_meetings[n].metrics[i].participation_percentage)
                          THEN <<team_meetings[n].metrics[i].speaker>>
                          ELSE <<>>
        /\ LevelMatches(risk, 50, 30)

\* the most recent meeting is not the last one handed in, its top speaker is
\* between 40% and 50% and is listed as dominant
C20_Witness ==
    /\ Detected("dominance")
    /\ Len(team_meetings) >= 2
    /\ team_meetings[Len(team_meetings)].date < team_meetings[1].date
    /\ risk.risk_score = 45
    /\ Len(risk.dominant_speakers) = 1

\* the meetings the disengagement detector reads
LastThree ==
    SubSeq(sorted_by_date(team_meetings), Len(team_meetings) - 2, Len(team_meetings))

\* the speaker has a MeetingMetrics row in the meeting
HasRow(m, name) == \E k \in DOMAIN m.metrics : m.metrics[k].speaker = name

\* the speaker's engagement score in the meeting
ScoreIn(m, name) ==
    (CHOOSE r \in {m.metrics[k] : k \in DOMAIN m.metrics} : r.speaker = name).engagement_score

\* the speaker's engagement scores over the meetings, in their order
RECURSIVE ScoresOver(_, _)
ScoresOver(ms, name) ==
    IF ms = <<>> THEN <<>>
    ELSE (IF HasRow(ms[1], name) THEN <<ScoreIn(ms[1], name)>> ELSE <<>>)
         \o ScoresOver(Tail(ms), name)

WindowMean(xs) == FDiv(FSum(xs), FInt(Len(xs)))

\* the claimed test on a speaker's scores, split at the floor-midpoint
AtRiskBy(scores) ==
    \/ FLess(FMul(FDiv(FSub(WindowMean(SubSeq(scores, (Len(scores) \div 2) + 1, Len(scores))),
                            WindowMean(SubSeq(scores, 1, Len(scores) \div 2))),
                       FAdd(WindowMean(SubSeq(scores, 1, Len(scores) \div 2)), Frac(1, 1000))),
                  FInt(100)),
             FInt(-25))
    \/ FLess(WindowMean(SubSeq(scores, (Len(scores) \div 2) + 1, Len(scores))), FInt(35))

NamesOf(ms) == UNION {{m.metrics[k].speaker : k \in DOMAIN m.metrics} : m \in {ms[i] : i \in DOMAIN ms}}

\* the speakers the claim calls at-risk
AtRiskClaimed ==
    {name \in NamesOf(LastThree) :
        /\ Len(ScoresOver(LastThree, name)) >= 2
        /\ AtRiskBy(ScoresOver(LastThree, name))}

\* C21: with at least 3 meetings the at-risk speakers are those with a row in
\* at least 2 of the 3 most recent meetings whose scores, split at the
\* floor-midpoint, fell by more than 25% or end below 35; the level is high
\* for 2 or more of them, medium for 1, none for 0.
C21_Disengagement ==
    (Detected("disengagement") /\ Len(team_meetings) >= 3) =>
        /\ {risk.at_risk_speakers[i].name : i \in DOMAIN risk.at_risk_speakers} = AtRiskClaimed
        /\ Len(risk.at_risk_speakers) = Cardinality(AtRiskClaimed)
        /\ risk.risk_level = "high" <=> Cardinality(AtRiskClaimed) >= 2
        /\ risk.risk_level = "medium" <=> Cardinality(AtRiskClaimed) = 1
        /\ risk.risk_level = "none" <=> Cardinality(AtRiskClaimed) = 0

\* four meetings; Al fell from 60 to 40 over the last three, while the score
\* of 30 in the oldest meeting is not read
C21_Witness ==
    /\ Detected("disengagement") /\ Len(team_meetings) = 4
    /\ sorted_by_date(team_meetings)[1].metrics = <<MetricsRow("Al", FInt(100), FInt(30))>>
    /\ risk.risk_level = "medium"
    /\ risk.at_risk_speakers[1].name = "Al"
    /\ risk.at_risk_speakers[1].current_engagement = FInt(40)

\* the three scores of the team, as the detectors return them
ConflictScore == detect_conflict_risk(sorted_by_date(team_meetings)).risk_score
BurnoutScore == detect_burnout_risk(sorted_by_date(team_meetings)).risk_score
DominanceScore == detect_dominance_issues(sorted_by_date(team_meetings)).risk_score

\* 0.4 * conflict + 0.35 * burnout + 0.25 * dominance, in hundredths
BlendHundredths == 40 * ConflictScore + 35 * BurnoutScore + 25 * DominanceScore

OverallReturned == apc = "overall" /\ "score" \in DOMAIN risk

\* the returned score and level against the blend, in hundredths
OverallMatches(result, blend) ==
    /\ FLeq(FAbs(FSub(result.score, Frac(blend, 100))), Frac(5, 100))
    /\ result.level = "critical" <=> blend >= 5000
    /\ result.level = "high" <=> (3500 <= blend /\ blend < 5000)
    /\ result.level = "medium" <=> (1500 <= blend /\ blend < 3500)
    /\ result.level = "low" <=> blend < 1500
    /\ result.level = "critical" <=> FLeq(FInt(50), result.score)
    /\ result.level = "high" <=> (FLeq(FInt(35), result.score) /\ FLess(result.score, FInt(50)))
    /\ result.level = "medium" <=> (FLeq(FInt(15), result.score) /\ FLess(result.score, FInt(35)))
    /\ result.level = "low" <=> FLess(result.score, FInt(15))

\* C22: the overall score returned is 0.4 * conflict + 0.35 * burnout +
\* 0.25 * dominance risk_score, reported to one decimal place, whatever the
\* disengagement detector finds; the level is critical from 50, high from 35,
\* medium from 15, low below.
C22_OverallRisk == OverallReturned => OverallMatches(risk, BlendHundredths)

\* the three detectors score differently and the blend, 61.75, is critical
C22_Witness ==
    /\ OverallReturned
    /\ risk.level = "critical" /\ FLess(FInt(61), risk.score) /\ FLess(risk.score, FInt(62))
    /\ ConflictScore = 90 /\ BurnoutScore = 20 /\ DominanceScore = 75

----------------------------------------------------------------------------
(* Claims about the health index                                              *)

HealthReturned == apc = "health" /\ "score" \in DOMAIN health

\* 0.30*(current_sentiment_avg+1)*50 + 0.30*current_balance*100
\* + 0.20*current_engagement_avg + 0.20*volume_score
HealthClaimed(sentiment, participation, engagement_trend, volume) ==
    FAdd(FAdd(FMul(Frac(30, 100), FMul(FAdd(sentiment.current_avg, FInt(1)), FInt(50))),
              FMul(Frac(30, 100), FMul(participation.current_balance, FInt(100)))),
         FAdd(FMul(Frac(20, 100), engagement_trend.current_avg),
              FMul(Frac(20, 100),
                   CASE volume.trend = "stable" -> FInt(80)
                     [] volume.trend = "increasing" -> FInt(70)
                     [] volume.trend = "decreasing" -> FInt(50))))

HealthMatches(result, claimed) ==
    /\ result.score = round(claimed, 1)
    /\ result.level = "excellent" <=> FLeq(FInt(80), claimed)
    /\ result.level = "good" <=> (FLeq(FInt(65), claimed) /\ FLess(claimed, FInt(80)))
    /\ result.level = "fair" <=> (FLeq(FInt(50), claimed) /\ FLess(claimed, FInt(65)))
    /\ result.level = "poor" <=> FLess(claimed, FInt(50))

\* C23: for fewer than 2 meetings the health index is score 0 and level
\* 'unknown'; for 2 or more the returned score is the weighted sum, reported
\* to one decimal place, with the level bands 80, 65 and 50; the score is in
\* [0,100].
C23_HealthIndex ==
    /\ (apc = "health" /\ Len(team_meetings) < 2) =>
          (health.score = FInt(0) /\ health.level = "unknown")
    /\ (HealthReturned /\ Len(team_meetings) >= 2) =>
          HealthMatches(health, HealthClaimed(trend_of("sentiment"), trend_of("participation"),
                                              trend_of("engagement"), trend_of("message_volume")))
    /\ HealthReturned => (FLeq(FInt(0), health.score) /\ FLeq(health.score, FInt(100)))

\* a health score of exactly 65 is 'good'
C23_Witness ==
    /\ HealthReturned /\ Len(team_meetings) >= 2
    /\ health.score = FInt(65) /\ health.level = "good"

----------------------------------------------------------------------------
(* Claims about the primary concern                                           *)

BannerReturned == apc = "banner" /\ "primary_concern" \in DOMAIN insight

DecliningBeyond(trend_dict, percent) ==
    /\ trend_dict.trend = "declining"
    /\ FLess(FInt(percent), FAbs(trend_dict.change_percentage))

\* the concern the precedence burnout, conflict, dominance, engagement,
\* sentiment selects
ConcernClaimed(burnout, conflict, dominance, engagement_trend, sentiment) ==
    IF burnout.risk_level = "high" THEN "Burnout risk detected"
    ELSE IF conflict.risk_level = "high" THEN "Conflict indicators emerging"
    ELSE IF dominance.risk_level = "high" THEN "is dominating"
    ELSE IF DecliningBeyond(engagement_trend, 15) THEN "Team engagement has dropped"
    ELSE IF DecliningBeyond(sentiment, 10) THEN "Team morale declining"
    ELSE None

\* what the concern quotes
QuotedClaimed(concern, burnout, conflict) ==
    /\ concern.concern = "Burnout risk detected" =>
          (burnout.indicators # <<>> /\ concern.quoted = burnout.indicators[1])
    /\ concern.concern = "Conflict indicators emerging" =>
          (conflict.indicators # <<>> /\ concern.quoted = conflict.indicators[1])

\* C24: the primary concern of a returned banner is the first that holds of
\* burnout high, conflict high, dominance high, engagement declining by more
\* than 15%, sentiment declining by more than 10%, and None when none holds;
\* a high burnout or conflict risk quotes its first indicator, and looking
\* for it never fails.
C24_PrimaryConcern ==
    /\ (BannerReturned /\ Len(team_meetings) >= 2) =>
          /\ insight.primary_concern.concern =
                ConcernClaimed(detect_burnout_risk(sorted_by_date(team_meetings)),
                               detect_conflict_risk(sorted_by_date(team_meetings)),
                               detect_dominance_issues(sorted_by_date(team_meetings)),
                               trend_of("engagement"), trend_of("sentiment"))
          /\ QuotedClaimed(insight.primary_concern,
                           detect_burnout_risk(sorted_by_date(team_meetings)),
                           detect_conflict_risk(sorted_by_date(team_meetings)))
    /\ (apc = "banner" /\ Len(team_meetings) >= 2 /\ "raised" \in DOMAIN insight) =>
          insight.raised # IndexError

\* burnout and conflict are both high and the concern is the burnout one
C24_Witness ==
    /\ BannerReturned /\ Len(team_meetings) >= 3
    /\ detect_conflict_risk(sorted_by_date(team_meetings)).risk_level = "high"
    /\ insight.primary_concern.concern = "Burnout risk detected"
    /\ insight.primary_concern.quoted.message = "Engagement dropped %"

----------------------------------------------------------------------------
(* Claims about the shape of the detectors' results                           *)

\* C25: every result a detector returns has a risk_level among none, low,
\* medium, high and unknown, an integer risk_score, an indicators list and a
\* recommendation.
C25_ResultShape ==
    (apc \in Detectors /\ "risk_level" \in DOMAIN risk) =>
        /\ {"risk_score", "indicators", "recommendation"} \subseteq DOMAIN risk
        /\ risk.risk_level \in {"none", "low", "medium", "high", "unknown"}
        /\ risk.risk_score \in Int
        /\ DOMAIN risk.indicators = 1..Len(risk.indicators)

----------------------------------------------------------------------------
(* Claims about a second analysis pass                                        *)

AnalyzedAgain(p) == pc[p] \in {"done_again", "failed_again"}

\* C26: a second analyze_and_save on an analyzed meeting with the same parsed
\* messages completes without error and leaves one MeetingMetrics row per
\* speaker of the meeting and as many messages as the first pass.
C26_SecondPassRecomputes ==
    \A p \in Passes :
        AnalyzedAgain(p) =>
            /\ pc[p] = "done_again"
            /\ \A r1, r2 \in MetricsOf(p) : r1.speaker = r2.speaker => r1 = r2
            /\ Cardinality(MessagesOf(p)) = Len(req[p].parsed_data)
            /\ \A m \in meetings : m.id = p => m.total_messages = Cardinality(MessagesOf(p))

----------------------------------------------------------------------------
(* Claims about division by zero                                              *)

\* C27: in a trend analysis over two windows, whatever the earlier-window
\* average (a sentiment in [-1,1], a balance in [0,1], an engagement in
\* [0,100], a message count), the denominator of the change is not zero and
\* the analysis returns.
C27_NoZeroDenominator ==
    TwoWindows =>
        /\ denominator_of(apc, trend.earlier_avg) # FInt(0)
        /\ "result" \in DOMAIN trend

----------------------------------------------------------------------------
(* Claims about the score and the indicators of a detector result             *)

count_if(fires) == IF fires THEN 1 ELSE 0

\* the conflict rules whose condition holds
conflict_rules_fired(sentiment_trend, participation_trend) ==
    count_if(/\ sentiment_trend.trend = "declining"
             /\ FLess(sentiment_trend.change_percentage, FInt(-15)))
    + count_if(FLess(sentiment_trend.current_avg, Frac(-3, 10)))
    + count_if(FLess(participation_trend.current_balance, Frac(1, 2)))
    + count_if(participation_trend.trend = "declining")

\* the burnout rules whose condition holds
burnout_rules_fired(engagement_trend, message_trend, sentiment_trend) ==
    count_if(/\ engagement_trend.trend = "declining"
             /\ FLess(engagement_trend.change_percentage, FInt(-20)))
    + count_if(/\ message_trend.trend = "decreasing"
               /\ FLess(message_trend.change_percentage, FInt(-20)))
    + count_if(sentiment_trend.trend = "declining")
    + count_if(FLess(engagement_trend.current_avg, FInt(40)))

\* the dominance rules whose condition holds; the two branches on the top
\* speaker are one rule
dominance_rules_fired(top, second, participation_balance) ==
    count_if(FLess(FInt(40), top))
    + count_if(FLess(FInt(75), FAdd(top, second)))
    + count_if(FLess(participation_balance, Frac(1, 2)))

\* the rules that fired for the result in `risk`
RulesFired ==
    CASE apc = "conflict" ->
            conflict_rules_fired(trend_of("sentiment"), trend_of("participation"))
      [] apc = "burnout" ->
            burnout_rules_fired(trend_of("engagement"), trend_of("message_volume"),
                                trend_of("sentiment"))
      [] apc = "dominance" ->
            LET recent == sorted_by_date(team_meetings)[Len(team_meetings)]
                rows == metrics_all(recent)
            IN  dominance_rules_fired(rows[1].participation_percentage,
                                      rows[2].participation_percentage,
                                      recent.participation_balance)

MaxScore == [conflict |-> 90, burnout |-> 100, dominance |-> 75]

\* a conflict, burnout or dominance result that went through the rules
Scored ==
    /\ apc \in {"conflict", "burnout", "dominance"}
    /\ Detected(apc)
    /\ risk.risk_level # "unknown"

\* C28: in a conflict, burnout or dominance result the score is positive
\* exactly when there is an indicator, a scored result has one indicator per
\* rule that fired and is 'none' exactly when it has no indicator, and the
\* score is at most 90, 100 and 75.
C28_ScoreAndIndicators ==
    (apc \in {"conflict", "burnout", "dominance"} /\ Detected(apc)) =>
        /\ risk.risk_score > 0 <=> risk.indicators # <<>>
        /\ risk.risk_score \in 0..MaxScore[apc]
        /\ risk.risk_level = "none" <=> (Scored /\ risk.indicators = <<>>)
        /\ Scored => Len(risk.indicators) = RulesFired

\* a burnout result with two indicators
C28_Witness ==
    /\ Scored /\ apc = "burnout"
    /\ Len(risk.indicators) = 2 /\ risk.risk_score = 55

----------------------------------------------------------------------------
(* Claims about a most recent meeting of two speakers                         *)

\* the meeting detect_dominance_issues reads
RecentMeeting == sorted_by_date(team_meetings)[Len(team_meetings)]

\* the most recent meeting has the rows analyze_and_save writes for two
\* speakers
TwoSpeakersAnalysed ==
    /\ team_meetings # <<>>
    /\ Len(RecentMeeting.metrics) = 2
    /\ \E a, b \in 1..MaxCount :
          /\ RecentMeeting.metrics[1].participation_percentage = participation_pct(a, a + b)
          /\ RecentMeeting.metrics[2].participation_percentage = participation_pct(b, a + b)

\* C29: when the most recent meeting was analysed with exactly two speakers,
\* a dominance result has the top two at 100%, the top speaker at 50% or
\* more, a score of at least 45 and the level 'medium' or 'high'.
C29_TwoSpeakers ==
    (Detected("dominance") /\ TwoSpeakersAnalysed) =>
        /\ top_two_participation(RecentMeeting.metrics) = FInt(100)
        /\ FLeq(FInt(50), metrics_all(RecentMeeting)[1].participation_percentage)
        /\ risk.risk_score >= 45
        /\ risk.risk_level \in {"medium", "high"}

\* two speakers with the same number of messages: 25 + 20 and 'medium'
C29_Witness ==
    /\ Detected("dominance") /\ TwoSpeakersAnalysed
    /\ RecentMeeting.metrics[1].participation_percentage = FInt(50)
    /\ risk.risk_score = 45 /\ risk.risk_level = "medium"

----------------------------------------------------------------------------
(* Claims about the validator and the colon-mode parser                       *)

\* _parse_colon_format appends an utterance for the line
ColonUtterance(raw) ==
    colon_step([sequence |-> 0, messages |-> <<>>], raw).messages # <<>>

\* C30: the validator counts a line as valid exactly when the colon-mode
\* parser produces an utterance for it, and a transcript that passes
\* validation and is parsed in colon mode yields at least 2 utterances.
C30_ValidatorAgreesWithColonParser ==
    /\ ppc # "start" =>
           \A i \in DOMAIN lines : valid_line(lines[i]) <=> ColonUtterance(lines[i])
    /\ (ppc = "done" /\ format_type = "colon" /\ validate(transcript_text)) =>
           Len(parsed) >= MinValidLines

\* a validated transcript parsed in colon mode, one of whose lines has a
\* colon and is skipped
C30_Witness ==
    /\ ppc = "done" /\ format_type = "colon" /\ validate(transcript_text)
    /\ Len(parsed) = 2 /\ Len(lines) = 3
    /\ \E i \in DOMAIN lines :
          /\ \E j \in DOMAIN lines[i] : lines[i][j] = ":"
          /\ ~valid_line(lines[i])

====
